---- MODULE Spec2Model ----
(***************************************************************************)
(* Mission Control "models" pages: the routing table (ModelsWorkspace),    *)
(* the agent routing edit page (AgentRoutingEditPage), the catalog model   *)
(* form (CatalogModelFormPage), the provider auth form                     *)
(* (ProviderAuthFormPage) and the gateway sync page (ModelsSyncPage).      *)
(*                                                                         *)
(* One page is mounted at a time (variable page).  The lists the queries   *)
(* return are chosen in Init; the component state (useState drafts, error  *)
(* strings, mutation status) changes with the handlers.                    *)
(*                                                                         *)
(* Conventions                                                             *)
(*   - identifiers (gateway, model, agent ids) and messages are TLA+       *)
(*     strings; "" is the empty (falsy) string;                            *)
(*   - text typed into a form field is a sequence of characters, so that   *)
(*     trim() and toLowerCase() are computed;                              *)
(*   - a nullable value is a sequence of length 0 (null / undefined) or 1. *)
(***************************************************************************)
EXTENDS Integers, Sequences, FiniteSets, TLC

\* ------------------------------------------------------------------ bounds
\* Largest number of catalog models the models query returns.
MaxModels == 2
\* Largest number of agents the agents query returns on the routing table.
MaxAgents == 1

\* ------------------------------------------------------- nullable values
Null == <<>>
Some(v) == <<v>>
\* JavaScript's  opt ?? default
Coalesce(opt, default) == IF opt = Null THEN default ELSE opt[1]

\* ------------------------------------------------------------- sequences
Range(s) == {s[i] : i \in 1..Len(s)}

\* Array.prototype.indexOf, 1-based; 0 when absent
IndexOf(s, v) ==
  IF v \in Range(s) THEN CHOOSE i \in 1..Len(s) : s[i] = v /\ \A j \in 1..(i - 1) : s[j] # v
  ELSE 0

\* ------------------------------------------------------------ text fields
\* Characters a form field may hold: whitespace " ", a lower-case and an
\* upper-case letter "a" "A", and one more letter "b".

\* String.prototype.trim
RECURSIVE TrimStart(_)
TrimStart(s) == IF s # <<>> /\ Head(s) = " " THEN TrimStart(Tail(s)) ELSE s

RECURSIVE TrimEnd(_)
TrimEnd(s) ==
  IF s # <<>> /\ s[Len(s)] = " " THEN TrimEnd(SubSeq(s, 1, Len(s) - 1)) ELSE s

Trim(s) == TrimEnd(TrimStart(s))

\* String.prototype.toLowerCase
ToLowerCase(s) == [i \in 1..Len(s) |-> IF s[i] = "A" THEN "a" ELSE s[i]]

\* ------------------------------------------------------------ server data
GatewayIds == {"g1", "g2"}
IdNames == <<"m1", "m2", "m3", "m4">>
ModelIds == {IdNames[i] : i \in 1..MaxModels}
AgentNames == <<"a1", "a2", "a3", "a4">>

\* created_at as the server sends it: a fixed-width digit string.  Stamps lists
\* creation times in increasing order.
Stamps == <<<<0, 9>>, <<1, 0>>, <<1, 1>>, <<2, 0>>>>

\* String(a).localeCompare(String(b)) on digit strings: -1, 0 or 1
RECURSIVE localeCompare(_, _)
localeCompare(a, b) ==
  IF a = <<>> /\ b = <<>> THEN 0
  ELSE IF a = <<>> THEN -1
  ELSE IF b = <<>> THEN 1
  ELSE IF Head(a) < Head(b) THEN -1
  ELSE IF Head(a) > Head(b) THEN 1
  ELSE localeCompare(Tail(a), Tail(b))

\* LlmModelRead lists: the k-th model of the list has id IdNames[k]; gateway and
\* creation time are free, so list order and creation order are independent.
ModelLists ==
  UNION {
    {[i \in 1..n |-> [id |-> IdNames[i], gateway_id |-> g[i], created_at |-> c[i]]] :
       g \in [1..n -> GatewayIds], c \in [1..n -> {Stamps[1], Stamps[2]}]} : n \in 0..MaxModels}

\* The lists the edit page is given.  The page never reads created_at, so the
\* creation order is one of: the list order, its reverse, or all created together.
CreationOrders(n) ==
  {[i \in 1..n |-> Stamps[i]], [i \in 1..n |-> Stamps[n + 1 - i]], [i \in 1..n |-> Stamps[1]]}

EditModelLists ==
  UNION {
    {[i \in 1..n |-> [id |-> IdNames[i], gateway_id |-> g[i], created_at |-> c[i]]] :
       g \in [1..n -> GatewayIds], c \in CreationOrders(n)} : n \in 0..MaxModels}

\* AgentRead: primary_model_id and fallback_model_ids are nullable; an id of
\* ModelIds that no listed model carries is a dangling reference.  The agent
\* under edit lives on gateway "g1"; any model may live on either gateway.
\* Stored fallbacks: none, one that names the first model twice, one in
\* reverse list order.
EditAgents ==
  [id : {AgentNames[1]}, gateway_id : {"g1"},
   primary_model_id : {Null, Some(IdNames[1]), Some(IdNames[MaxModels])},
   fallback_model_ids :
     {Null, Some(<<IdNames[1], IdNames[1]>>), Some(<<IdNames[MaxModels], IdNames[1]>>)}]

TableAgents(i) ==
  [id : {AgentNames[i]}, gateway_id : GatewayIds,
   primary_model_id : {Null, Some(IdNames[1]), Some(IdNames[MaxModels])},
   fallback_model_ids : {Null}]

AgentLists ==
  UNION {{[i \in 1..n |-> pick[i]] :
            pick \in {p \in [1..n -> UNION {TableAgents(k) : k \in 1..n}] :
                        \A k \in 1..n : p[k].id = AgentNames[k]}} : n \in 0..MaxAgents}

\* ------------------------------------------------------------------ state
VARIABLES
  page,                \* the mounted page component
  isSignedIn, isAdmin, \* useAuth / useOrganizationMembership
  gateways,            \* gateway ids of gatewaysQuery, in list order
  models,              \* modelsQuery data
  agents,              \* agentsQuery data
  providerAuth,        \* providerAuthQuery data
  loaded,              \* the queries whose data arrived with status 200
  mode,                \* props.mode of a form page
  itemId,              \* props.modelId / props.providerAuthId / agentId
  requestedGateway,    \* the trimmed ?gateway= search parameter
  gatewayDraft, providerDraft, modelIdDraft, displayNameDraft, settingsDraft,
  configPathDraft, secret,
  primaryModelDraft, fallbackModelDraft,
  activeGatewayDraft, syncMessage,
  providerSortKey, providerSortDirection,   \* sort state of the three tables
  modelSortKey, modelSortDirection,
  routingSortKey, routingSortDirection,
  error,               \* the page's error state (useState<string | null>)
  mut,                 \* status of each mutation of the page
  request,             \* the variables of the latest mutate() call
  sent,                \* requests issued since the latest user action began
  invalidated,         \* query keys whose invalidation has completed
  location             \* "form" / "page", or the route router.push went to

authVars == <<isSignedIn, isAdmin>>
dataVars == <<gateways, models, agents, providerAuth, loaded>>
propVars == <<mode, itemId, requestedGateway>>
formVars == <<gatewayDraft, providerDraft, modelIdDraft, displayNameDraft,
              settingsDraft, configPathDraft, secret>>
routingVars == <<primaryModelDraft, fallbackModelDraft>>
syncVars == <<activeGatewayDraft, syncMessage>>
sortVars == <<providerSortKey, providerSortDirection, modelSortKey,
              modelSortDirection, routingSortKey, routingSortDirection>>
netVars == <<mut, request, sent, invalidated, location>>
vars == <<page, authVars, dataVars, propVars, formVars, routingVars, syncVars,
          sortVars, error, netVars>>

\* The list queries enabled for every signed-in user, admin or not.
QueriesEnabledSignedIn == isSignedIn

\* enabled: Boolean(isSignedIn && isAdmin)
QueriesEnabled == isSignedIn /\ isAdmin

\* providerAuthQuery of the provider auth form:
\* enabled: Boolean(isSignedIn && isAdmin && props.mode === "edit")
providerAuthQueryEnabled == isSignedIn /\ isAdmin /\ mode = "edit"

\* The list queries the mounted page declares
PageQueries ==
  CASE page = "routingTable" -> {"gateways", "models", "boards", "providerAuth", "agents"}
    [] page = "routingEdit" -> {"agents", "boards", "gateways", "models"}
    [] page = "catalogForm" -> {"gateways", "models"}
    [] page = "providerForm" -> {"gateways", "providerAuth"}
    [] OTHER -> {"gateways", "models", "providerAuth", "agents"}

\* withGatewayQuery(path, gatewayId): the route, with the ?gateway= parameter
withGatewayQuery(path, gatewayId) ==
  IF gatewayId = "" THEN <<path>> ELSE <<path, gatewayId>>

\* Array.prototype.find on a list of records with an id: the first match, or null
FindById(list, id) ==
  LET hits == {i \in 1..Len(list) : list[i].id = id}
  IN IF hits = {} THEN Null
     ELSE Some(list[CHOOSE i \in hits : \A j \in hits : i <= j])

\* new Map(list.map((x) => [x.id, x])).get(id): the last entry with that id
MapGet(list, id) ==
  LET hits == {i \in 1..Len(list) : list[i].id = id}
  IN IF hits = {} THEN Null
     ELSE Some(list[CHOOSE i \in hits : \A j \in hits : i >= j])

\* =================================================== ModelsWorkspace (table)
\* modelsById.get(id) over every fetched model
modelsById(id) == MapGet(models, id)

compareCreatedAt(a, b) == localeCompare(a.created_at, b.created_at)

\* Insert x into the sorted sequence s before the first element that compares
\* greater than x: the insertion step of a stable sort by created_at.
InsertSorted(x, s) ==
  LET later == {i \in 1..Len(s) : compareCreatedAt(s[i], x) > 0}
  IN IF later = {} THEN Append(s, x)
     ELSE LET k == CHOOSE i \in later : \A j \in later : i <= j
          IN SubSeq(s, 1, k - 1) \o <<x>> \o SubSeq(s, k, Len(s))

\* [...bucket].sort((a, b) => String(a.created_at).localeCompare(String(b.created_at)))
StableSort(s) ==
  LET F[i \in 0..Len(s)] ==
        IF i = 0 THEN <<>> ELSE InsertSorted(s[i], F[i - 1])
  IN F[Len(s)]

\* The first model of the gateway's bucket, in list order, without sorting.
gatewayDefaultUnsorted(gatewayId) ==
  LET bucket == SelectSeq(models, LAMBDA m : m.gateway_id = gatewayId)
  IN IF bucket = <<>> THEN Null ELSE Some(bucket[1])

\* gatewayDefaultById.get(gatewayId): the gateway's bucket in list order, sorted
\* by created_at; its first element
gatewayDefaultById(gatewayId) ==
  LET bucket == SelectSeq(models, LAMBDA m : m.gateway_id = gatewayId)
      sorted == StableSort(bucket)
  IN IF sorted = <<>> THEN Null ELSE Some(sorted[1])

\* One element of routingRows
routingRow(agent) ==
  LET primary == IF Coalesce(agent.primary_model_id, "") # ""
                 THEN modelsById(agent.primary_model_id[1]) ELSE Null
      defaultPrimary == gatewayDefaultById(agent.gateway_id)
      effectivePrimary == IF primary # Null THEN primary ELSE defaultPrimary
  IN [agent |-> agent,
      primary |-> primary,
      effectivePrimary |-> effectivePrimary,
      fallbackCount |-> Len(Coalesce(agent.fallback_model_ids, <<>>)),
      status |-> IF primary # Null THEN "override"
                 ELSE IF effectivePrimary # Null THEN "default"
                 ELSE "unconfigured"]

routingRows == [i \in 1..Len(agents) |-> routingRow(agents[i])]

\* ====================================================== AgentRoutingEditPage
\* agents.find((item) => item.id === agentId) ?? null
agent == FindById(agents, itemId)

\* Every fetched model, whatever its gateway.
modelsOfEveryGateway == IF agent # Null THEN models ELSE <<>>

\* models.filter((model) => model.gateway_id === agent.gateway_id)
modelsForGateway ==
  IF agent # Null /\ agent[1].gateway_id # ""
  THEN SelectSeq(models, LAMBDA m : m.gateway_id = agent[1].gateway_id)
  ELSE <<>>

availableModelIds == {modelsForGateway[i].id : i \in 1..Len(modelsForGateway)}

defaultPrimaryModel ==
  IF modelsForGateway = <<>> THEN Null ELSE Some(modelsForGateway[1])

baselinePrimaryModelId ==
  IF agent = Null THEN "" ELSE Coalesce(agent[1].primary_model_id, "")

baselineFallbackModelIds ==
  IF agent = Null THEN <<>> ELSE Coalesce(agent[1].fallback_model_ids, <<>>)

primaryModelIdCandidate == Coalesce(primaryModelDraft, baselinePrimaryModelId)

primaryModelId ==
  IF primaryModelIdCandidate \in availableModelIds THEN primaryModelIdCandidate ELSE ""

\* The fallback filter without the exclusion of the primary model.
fallbackModelIdsKeepPrimary ==
  LET source == Coalesce(fallbackModelDraft, baselineFallbackModelIds)
      keep(i) == /\ source[i] \in availableModelIds
                 /\ IndexOf(source, source[i]) = i
      indexed == SelectSeq([i \in 1..Len(source) |-> i], keep)
  IN [k \in 1..Len(indexed) |-> source[indexed[k]]]

\* source.filter((id, index, list) => id !== primaryModelId &&
\*   availableModelIds.has(id) && list.indexOf(id) === index)
fallbackModelIds ==
  LET source == Coalesce(fallbackModelDraft, baselineFallbackModelIds)
      keep(i) == /\ source[i] # primaryModelId
                 /\ source[i] \in availableModelIds
                 /\ IndexOf(source, source[i]) = i
      indexed == SelectSeq([i \in 1..Len(source) |-> i], keep)
  IN [k \in 1..Len(indexed) |-> source[indexed[k]]]

selectedPrimary ==
  IF primaryModelId # "" THEN MapGet(modelsForGateway, primaryModelId) ELSE Null

effectivePrimaryModel ==
  IF selectedPrimary # Null THEN selectedPrimary ELSE defaultPrimaryModel

\* A status that reads the requested primary without resolving it.
statusByCandidate ==
  IF primaryModelIdCandidate # "" THEN "override"
  ELSE IF effectivePrimaryModel # Null THEN "default"
  ELSE "unconfigured"

status ==
  IF primaryModelId # "" THEN "override"
  ELSE IF effectivePrimaryModel # Null THEN "default"
  ELSE "unconfigured"

\* stringListsMatch(left, right)
stringListsMatch(left, right) ==
  /\ Len(left) = Len(right)
  /\ \A index \in 1..Len(left) : left[index] = right[index]

hasUnsavedChanges ==
  IF agent = Null THEN FALSE
  ELSE \/ baselinePrimaryModelId # primaryModelId
       \/ ~stringListsMatch(baselineFallbackModelIds, fallbackModelIds)

\* ------------------------------------------------------------- mutations
MutationKinds ==
  {"createModel", "updateModel", "createProviderAuth", "updateProviderAuth",
   "updateAgent", "deleteProvider", "deleteModel", "sync", "pull"}

\* What a page reads of a mutation is isPending: a mutation is "pending" (the
\* request is in flight), "settling" (the response was a success and onSuccess
\* awaits the invalidation), or "idle" (never run, or settled either way).
isPending(kind) == mut[kind] \in {"pending", "settling"}

\* err.message of an ApiError: may be empty
ErrorMessages == {"", "HTTP 500"}

\* err.message || fallback
OrDefault(message, fallback) == IF message # "" THEN message ELSE fallback

\* The state every page starts from, apart from its data and props
FreshComponent ==
  /\ gatewayDraft = Null /\ providerDraft = Null /\ modelIdDraft = Null
  /\ displayNameDraft = Null /\ settingsDraft = Null /\ configPathDraft = Null
  /\ secret = <<>>
  /\ primaryModelDraft = Null /\ fallbackModelDraft = Null
  /\ activeGatewayDraft = Null /\ syncMessage = Null
  /\ providerSortKey = "gateway" /\ providerSortDirection = "asc"
  /\ modelSortKey = "gateway" /\ modelSortDirection = "asc"
  /\ routingSortKey = "agent" /\ routingSortDirection = "asc"
  /\ error = Null
  /\ mut = [k \in MutationKinds |-> "idle"]
  /\ request = Null
  /\ sent = 0
  /\ invalidated = {}
  /\ location = "page"

\* ------------------------------------------- AgentRoutingEditPage: actions
InitRoutingEdit ==
  /\ page = "routingEdit"
  /\ isSignedIn \in BOOLEAN /\ isAdmin \in BOOLEAN
  /\ gateways = <<>>
  /\ providerAuth = <<>>
  /\ IF QueriesEnabled
     THEN /\ models \in EditModelLists
          /\ agents \in {<<>>} \cup {<<a>> : a \in EditAgents}
          /\ loaded = PageQueries
     ELSE models = <<>> /\ agents = <<>> /\ loaded = {}
  /\ mode = "edit" /\ itemId = AgentNames[1] /\ requestedGateway = ""
  /\ FreshComponent

\* disabled={!agent || updateAgentMutation.isPending || ...}
routingControlsEnabled ==
  page = "routingEdit" /\ location = "page" /\ agent # Null /\ ~isPending("updateAgent")

\* SearchableSelect "Select primary model" onValueChange
onValueChange(value) ==
  /\ routingControlsEnabled
  /\ value \in availableModelIds
  /\ primaryModelDraft' = Some(value)
  /\ fallbackModelDraft' =
       Some(SelectSeq(Coalesce(fallbackModelDraft, baselineFallbackModelIds),
                   LAMBDA item : item # value))
  /\ UNCHANGED <<page, authVars, dataVars, propVars, sortVars, formVars, syncVars, error, netVars>>

\* The fallback checkbox of one option: onChange with the toggled checked value
onFallbackChange(option) ==
  /\ routingControlsEnabled
  /\ option \in availableModelIds
  /\ option # primaryModelId
  /\ LET checked == option \notin Range(fallbackModelIds)
         source == Coalesce(fallbackModelDraft, baselineFallbackModelIds)
     IN fallbackModelDraft' =
          IF checked
          THEN Some(IF option \in Range(source) THEN source ELSE Append(source, option))
          ELSE Some(SelectSeq(source, LAMBDA value : value # option))
  /\ UNCHANGED <<page, authVars, dataVars, propVars, sortVars, formVars, primaryModelDraft,
                 syncVars, error, netVars>>

\* The routing payload of handleSave
routingPayload ==
  [kind |-> "updateAgent",
   agentId |-> agent[1].id,
   primary_model_id |-> IF primaryModelId # "" THEN Some(primaryModelId) ELSE Null,
   fallback_model_ids |-> IF Len(fallbackModelIds) > 0 THEN Some(fallbackModelIds) ELSE Null]

\* "Save routing": disabled={!agent || isPending || !hasUnsavedChanges}
handleSave ==
  /\ routingControlsEnabled
  /\ hasUnsavedChanges
  /\ IF agent = Null
     THEN /\ error' = Some("Agent not found.")
          /\ sent' = 0
          /\ UNCHANGED <<mut, request>>
     ELSE IF primaryModelId # "" /\ primaryModelId \notin availableModelIds
     THEN /\ error' = Some("Primary model must belong to this gateway catalog.")
          /\ sent' = 0
          /\ UNCHANGED <<mut, request>>
     ELSE /\ error' = Null
          /\ mut' = [mut EXCEPT !["updateAgent"] = "pending"]
          /\ request' = Some(routingPayload)
          /\ sent' = 1
  /\ UNCHANGED <<page, authVars, dataVars, propVars, sortVars, formVars, routingVars, syncVars,
                 invalidated, location>>

\* "Revert"
handleRevert ==
  /\ routingControlsEnabled
  /\ hasUnsavedChanges
  /\ error' = Null
  /\ primaryModelDraft' = Null
  /\ fallbackModelDraft' = Null
  /\ UNCHANGED <<page, authVars, dataVars, propVars, sortVars, formVars, syncVars, netVars>>

\* A Clear override that unsets the primary alone and keeps the fallback draft
clearOverrideKeepFallback ==
  /\ routingControlsEnabled
  /\ error' = Null
  /\ primaryModelDraft' = Some("")
  /\ UNCHANGED fallbackModelDraft
  /\ UNCHANGED <<page, authVars, dataVars, propVars, sortVars, formVars, syncVars, netVars>>

\* "Clear override"
clearOverride ==
  /\ routingControlsEnabled
  /\ error' = Null
  /\ primaryModelDraft' = Some("")
  /\ fallbackModelDraft' = Some(<<>>)
  /\ UNCHANGED <<page, authVars, dataVars, propVars, sortVars, formVars, syncVars, netVars>>

\* updateAgentMutation: the request succeeded; onSuccess starts
\* invalidateQueries(agentsKey) and awaits it
updateAgentOnSuccess ==
  /\ page = "routingEdit"
  /\ mut["updateAgent"] = "pending"
  /\ mut' = [mut EXCEPT !["updateAgent"] = "settling"]
  /\ UNCHANGED <<page, authVars, dataVars, propVars, sortVars, formVars, routingVars, syncVars,
                 error, request, sent, invalidated, location>>

\* updateAgentMutation.onSuccess after the await: router.push
updateAgentOnInvalidated ==
  /\ page = "routingEdit"
  /\ mut["updateAgent"] = "settling"
  /\ invalidated' = invalidated \cup {"agentsKey"}
  /\ location' =
       IF agent # Null /\ agent[1].gateway_id # ""
       THEN withGatewayQuery("/models/routing", agent[1].gateway_id)
       ELSE <<"/models/routing">>
  /\ mut' = [mut EXCEPT !["updateAgent"] = "idle"]
  /\ UNCHANGED <<page, authVars, dataVars, propVars, sortVars, formVars, routingVars, syncVars,
                 error, request, sent>>

\* updateAgentMutation.onError
updateAgentOnError(message) ==
  /\ page = "routingEdit"
  /\ mut["updateAgent"] = "pending"
  /\ error' = Some(OrDefault(message, "Unable to save agent routing."))
  /\ mut' = [mut EXCEPT !["updateAgent"] = "idle"]
  /\ UNCHANGED <<page, authVars, dataVars, propVars, sortVars, formVars, routingVars, syncVars,
                 request, sent, invalidated, location>>

SelectPrimary == \E value \in ModelIds : onValueChange(value)
ToggleFallback == \E option \in ModelIds : onFallbackChange(option)
UpdateAgentFails == \E message \in ErrorMessages : updateAgentOnError(message)

\* ---------------------------------------------- ModelsWorkspace: actions
\* LlmProviderAuthRead rows; provider and config_path are text
ProviderAuthItems ==
  <<[id |-> "p1", gateway_id |-> "g1", provider |-> <<"a">>,
     config_path |-> <<"a", "b">>],
    [id |-> "p2", gateway_id |-> "g2", provider |-> <<"b">>,
     config_path |-> <<"b">>]>>

ProviderAuthLists == {<<>>, ProviderAuthItems}

\* The view prop of ModelsWorkspace is held in mode.
InitRoutingTable ==
  /\ page = "routingTable"
  /\ isSignedIn \in BOOLEAN /\ isAdmin \in BOOLEAN
  /\ IF QueriesEnabled
     THEN /\ gateways = <<"g1", "g2">>
          /\ models \in ModelLists
          /\ agents \in AgentLists
          /\ providerAuth \in ProviderAuthLists
          /\ loaded = PageQueries
     ELSE /\ gateways = <<>> /\ models = <<>> /\ agents = <<>> /\ providerAuth = <<>>
          /\ loaded = {}
  /\ mode \in {"provider-auth", "catalog", "routing"} /\ itemId = "" /\ requestedGateway = ""
  /\ FreshComponent

\* Array.prototype.filter((x) => x.id !== id): the list refetched after a delete
WithoutId(list, id) == SelectSeq(list, LAMBDA x : x.id # id)

\* Provider auth row "Delete": deleteProviderMutation.mutate({ providerAuthId })
deleteProviderClick(id) ==
  /\ page = "routingTable" /\ mode = "provider-auth"
  /\ ~isPending("deleteProvider")
  /\ id \in {providerAuth[i].id : i \in 1..Len(providerAuth)}
  /\ mut' = [mut EXCEPT !["deleteProvider"] = "pending"]
  /\ request' = Some([kind |-> "deleteProvider", providerAuthId |-> id])
  /\ sent' = 1
  /\ UNCHANGED <<page, authVars, dataVars, propVars, sortVars, formVars, routingVars, syncVars,
                 error, invalidated, location>>

\* deleteProviderMutation: the request succeeded; onSuccess awaits
\* invalidateQueries(providerAuthKey)
deleteProviderOnSuccess ==
  /\ page = "routingTable"
  /\ mut["deleteProvider"] = "pending"
  /\ mut' = [mut EXCEPT !["deleteProvider"] = "settling"]
  /\ UNCHANGED <<page, authVars, dataVars, propVars, sortVars, formVars, routingVars, syncVars,
                 error, request, sent, invalidated, location>>

\* The invalidation completed: the provider auth list was refetched
deleteProviderOnInvalidated ==
  /\ page = "routingTable"
  /\ mut["deleteProvider"] = "settling"
  /\ invalidated' = invalidated \cup {"providerAuthKey"}
  /\ providerAuth' = WithoutId(providerAuth, request[1].providerAuthId)
  /\ mut' = [mut EXCEPT !["deleteProvider"] = "idle"]
  /\ UNCHANGED <<page, authVars, gateways, models, agents, loaded, propVars, sortVars, formVars,
                 routingVars, syncVars, error, request, sent, location>>

\* deleteProviderMutation: the request failed; the mutation has no onError
deleteProviderOnError(message) ==
  /\ page = "routingTable"
  /\ mut["deleteProvider"] = "pending"
  /\ mut' = [mut EXCEPT !["deleteProvider"] = "idle"]
  /\ UNCHANGED <<page, authVars, dataVars, propVars, sortVars, formVars, routingVars, syncVars,
                 error, request, sent, invalidated, location>>

\* Catalog row "Delete": deleteModelMutation.mutate({ modelId })
deleteModelClick(id) ==
  /\ page = "routingTable" /\ mode = "catalog"
  /\ ~isPending("deleteModel")
  /\ id \in {models[i].id : i \in 1..Len(models)}
  /\ mut' = [mut EXCEPT !["deleteModel"] = "pending"]
  /\ request' = Some([kind |-> "deleteModel", modelId |-> id])
  /\ sent' = 1
  /\ UNCHANGED <<page, authVars, dataVars, propVars, sortVars, formVars, routingVars, syncVars,
                 error, invalidated, location>>

\* deleteModelMutation: the request succeeded; onSuccess awaits
\* Promise.all of invalidateQueries(modelsKey) and invalidateQueries(agentsKey)
deleteModelOnSuccess ==
  /\ page = "routingTable"
  /\ mut["deleteModel"] = "pending"
  /\ mut' = [mut EXCEPT !["deleteModel"] = "settling"]
  /\ UNCHANGED <<page, authVars, dataVars, propVars, sortVars, formVars, routingVars, syncVars,
                 error, request, sent, invalidated, location>>

\* onSuccess of the model delete invalidating the models list only.
deleteModelOnInvalidatedModelsOnly ==
  /\ page = "routingTable"
  /\ mut["deleteModel"] = "settling"
  /\ invalidated' = invalidated \cup {"modelsKey"}
  /\ models' = WithoutId(models, request[1].modelId)
  /\ mut' = [mut EXCEPT !["deleteModel"] = "idle"]
  /\ UNCHANGED <<page, authVars, gateways, agents, providerAuth, loaded, propVars, sortVars,
                 formVars, routingVars, syncVars, error, request, sent, location>>

\* Both invalidations completed: the model list was refetched
deleteModelOnInvalidated ==
  /\ page = "routingTable"
  /\ mut["deleteModel"] = "settling"
  /\ invalidated' = invalidated \cup {"modelsKey", "agentsKey"}
  /\ models' = WithoutId(models, request[1].modelId)
  /\ mut' = [mut EXCEPT !["deleteModel"] = "idle"]
  /\ UNCHANGED <<page, authVars, gateways, agents, providerAuth, loaded, propVars, sortVars,
                 formVars, routingVars, syncVars, error, request, sent, location>>

\* deleteModelMutation: the request failed; the mutation has no onError
deleteModelOnError(message) ==
  /\ page = "routingTable"
  /\ mut["deleteModel"] = "pending"
  /\ mut' = [mut EXCEPT !["deleteModel"] = "idle"]
  /\ UNCHANGED <<page, authVars, dataVars, propVars, sortVars, formVars, routingVars, syncVars,
                 error, request, sent, invalidated, location>>

DeleteProvider == \E id \in {"p1", "p2"} : deleteProviderClick(id)
DeleteProviderFails == \E message \in ErrorMessages : deleteProviderOnError(message)
DeleteModel == \E id \in ModelIds : deleteModelClick(id)
DeleteModelFails == \E message \in ErrorMessages : deleteModelOnError(message)

NextRoutingTable ==
  \/ DeleteProvider
  \/ deleteProviderOnSuccess
  \/ deleteProviderOnInvalidated
  \/ DeleteProviderFails
  \/ DeleteModel
  \/ deleteModelOnSuccess
  \/ deleteModelOnInvalidated
  \/ DeleteModelFails

SpecRoutingTable == InitRoutingTable /\ [][NextRoutingTable]_vars

\* ------------------------------------------- ModelsWorkspace: sorted tables
\* The sort state is read by the rendered rows alone and the sort handlers
\* write nothing else, so the tables are explored in a specification of their
\* own, over rows that carry the columns the tables sort by.

\* Largest number of rows a table is given.
MaxRows == 3

\* type ProviderSortKey / ModelSortKey / RoutingSortKey
ProviderSortKeys == {"gateway", "provider", "config_path", "secret", "updated"}
ModelSortKeys == {"gateway", "display_name", "model_id", "provider", "settings", "updated"}
RoutingSortKeys == {"agent", "role", "gateway", "board", "primary", "status"}

\* The characters of a name in collation order, and the rank of each; "A"
\* collates with "a".
Alphabet ==
  <<" ", "a", "b", "c", "d", "e", "f", "g", "h", "i", "j", "k", "l", "m",
    "n", "o", "p", "q", "r", "s", "t", "u", "v", "w", "x", "y", "z">>

\* a.localeCompare(b) on names: the letters decide, whatever their case; names
\* of the same letters are ordered by case, lower case first
CharRank ==
  [c \in Range(Alphabet) \cup {"A"} |->
     CHOOSE i \in 1..Len(Alphabet) : Alphabet[i] = IF c = "A" THEN "a" ELSE c]

localeCompareText(a, b) ==
  LET letters == localeCompare([i \in 1..Len(a) |-> CharRank[a[i]]],
                               [i \in 1..Len(b) |-> CharRank[b[i]]])
  IN IF letters # 0 THEN letters
     ELSE localeCompare([i \in 1..Len(a) |-> IF a[i] = "A" THEN 1 ELSE 0],
                        [i \in 1..Len(b) |-> IF b[i] = "A" THEN 1 ELSE 0])

\* The text constants of the tables, in the lower case they are compared in:
\* "Unknown gateway", "Gateway main", "Unspecified", and the status labels
\* "Primary override", "Using default", "No primary"
UnknownGateway ==
  <<"u", "n", "k", "n", "o", "w", "n", " ", "g", "a", "t", "e", "w", "a",
    "y">>
GatewayMain ==
  <<"g", "a", "t", "e", "w", "a", "y", " ", "m", "a", "i", "n">>
Unspecified ==
  <<"u", "n", "s", "p", "e", "c", "i", "f", "i", "e", "d">>
PrimaryOverride ==
  <<"p", "r", "i", "m", "a", "r", "y", " ", "o", "v", "e", "r", "r", "i",
    "d", "e">>
UsingDefault ==
  <<"u", "s", "i", "n", "g", " ", "d", "e", "f", "a", "u", "l", "t">>
NoPrimary ==
  <<"n", "o", " ", "p", "r", "i", "m", "a", "r", "y">>

\* Names of the gateways and of the one board; list order and name order differ
GatewayNames == [g \in GatewayIds |-> IF g = "g1" THEN <<"b">> ELSE <<"A">>]
Boards == <<[id |-> "b1", name |-> <<"a", "b">>]>>

\* gatewaysById.get(id)?.name ?? "Unknown gateway"
gatewayName(id) == IF id \in Range(gateways) THEN GatewayNames[id] ELSE UnknownGateway

\* new Date(String(updated_at)).getTime() || 0: updated_at is Some(time), or
\* Null when it does not parse
getTimeOrZero(updated_at) == Coalesce(updated_at, 0)

\* [...list].sort(compare): a stable insertion sort; compare[left, right] is
\* negative when left sorts first
SortWith(list, compare) ==
  LET insert(x, s) ==
        LET later == {i \in 1..Len(s) : compare[s[i], x] > 0}
        IN IF later = {} THEN Append(s, x)
           ELSE LET k == CHOOSE i \in later : \A j \in later : i <= j
                IN SubSeq(s, 1, k - 1) \o <<x>> \o SubSeq(s, k, Len(s))
      F[i \in 0..Len(list)] == IF i = 0 THEN <<>> ELSE insert(list[i], F[i - 1])
  IN F[Len(list)]

\* The provider auth comparison with the tie on the key always broken ascending.
providerCompareTieAscending(left, right) ==
  LET resolveString(row) ==
        IF providerSortKey = "gateway" THEN gatewayName(row.gateway_id)
        ELSE IF providerSortKey = "provider" THEN row.provider
        ELSE IF providerSortKey = "config_path" THEN row.config_path
        ELSE <<>>
      resolveNumber(row) ==
        IF providerSortKey = "secret" THEN (IF row.has_secret THEN 1 ELSE 0)
        ELSE IF providerSortKey = "updated" THEN getTimeOrZero(row.updated_at)
        ELSE 0
      baseCompare ==
        IF providerSortKey \in {"secret", "updated"}
        THEN resolveNumber(left) - resolveNumber(right)
        ELSE localeCompareText(ToLowerCase(resolveString(left)),
                               ToLowerCase(resolveString(right)))
  IN IF baseCompare # 0
     THEN (IF providerSortDirection = "asc" THEN baseCompare ELSE -baseCompare)
     ELSE localeCompareText(left.provider, right.provider)

\* The comparison of providerRows
providerCompare(left, right) ==
  LET resolveString(row) ==
        IF providerSortKey = "gateway" THEN gatewayName(row.gateway_id)
        ELSE IF providerSortKey = "provider" THEN row.provider
        ELSE IF providerSortKey = "config_path" THEN row.config_path
        ELSE <<>>
      resolveNumber(row) ==
        IF providerSortKey = "secret" THEN (IF row.has_secret THEN 1 ELSE 0)
        ELSE IF providerSortKey = "updated" THEN getTimeOrZero(row.updated_at)
        ELSE 0
      baseCompare ==
        IF providerSortKey \in {"secret", "updated"}
        THEN resolveNumber(left) - resolveNumber(right)
        ELSE localeCompareText(ToLowerCase(resolveString(left)),
                               ToLowerCase(resolveString(right)))
      fallbackCompare == localeCompareText(left.provider, right.provider)
  IN IF baseCompare # 0
     THEN (IF providerSortDirection = "asc" THEN baseCompare ELSE -baseCompare)
     ELSE IF providerSortDirection = "asc" THEN fallbackCompare ELSE -fallbackCompare

\* const providerRows = [...providerAuth].sort(...)
providerRows ==
  SortWith(providerAuth,
           [left \in Range(providerAuth), right \in Range(providerAuth) |->
              providerCompare(left, right)])

\* The comparison of modelRows
modelCompare(left, right) ==
  LET resolveString(row) ==
        IF modelSortKey = "gateway" THEN gatewayName(row.gateway_id)
        ELSE IF modelSortKey = "display_name" THEN row.display_name
        ELSE IF modelSortKey = "model_id" THEN row.model_id
        ELSE IF modelSortKey = "provider" THEN row.provider
        ELSE <<>>
      resolveNumber(row) ==
        IF modelSortKey = "settings"
        THEN (IF row.settings # Null THEN Cardinality(row.settings[1].keys) ELSE 0)
        ELSE IF modelSortKey = "updated" THEN getTimeOrZero(row.updated_at)
        ELSE 0
      baseCompare ==
        IF modelSortKey \in {"settings", "updated"}
        THEN resolveNumber(left) - resolveNumber(right)
        ELSE localeCompareText(ToLowerCase(resolveString(left)),
                               ToLowerCase(resolveString(right)))
      fallbackCompare == localeCompareText(left.display_name, right.display_name)
  IN IF baseCompare # 0
     THEN (IF modelSortDirection = "asc" THEN baseCompare ELSE -baseCompare)
     ELSE IF modelSortDirection = "asc" THEN fallbackCompare ELSE -fallbackCompare

\* const modelRows = [...models].sort(...)
modelRows ==
  SortWith(models,
           [left \in Range(models), right \in Range(models) |->
              modelCompare(left, right)])

\* agentRoleLabel(agent): identity_profile?.role, held in role, when it is a
\* string that is not blank, trimmed; otherwise null
agentRoleLabel(item) ==
  IF item.role = Null \/ Trim(item.role[1]) = <<>> THEN Null
  ELSE Some(Trim(item.role[1]))

\* routingStatusLabel(status)
routingStatusLabel(st) ==
  IF st = "override" THEN PrimaryOverride
  ELSE IF st = "default" THEN UsingDefault
  ELSE NoPrimary

\* resolveValue(row) of sortedRoutingRows; role, board and gatewayName of the
\* row are read off its agent
resolveValue(row) ==
  IF routingSortKey = "agent" THEN row.agent.name
  ELSE IF routingSortKey = "role" THEN Coalesce(agentRoleLabel(row.agent), Unspecified)
  ELSE IF routingSortKey = "gateway" THEN gatewayName(row.agent.gateway_id)
  ELSE IF routingSortKey = "board"
  THEN LET board == IF Coalesce(row.agent.board_id, "") # ""
                    THEN MapGet(Boards, row.agent.board_id[1]) ELSE Null
       IN IF board # Null THEN board[1].name ELSE GatewayMain
  ELSE IF routingSortKey = "primary"
  THEN IF row.primary # Null THEN row.primary[1].display_name
       ELSE IF row.effectivePrimary # Null THEN row.effectivePrimary[1].display_name
       ELSE <<>>
  ELSE routingStatusLabel(row.status)

\* The comparison of sortedRoutingRows
routingCompare(left, right) ==
  LET baseCompare == localeCompareText(ToLowerCase(resolveValue(left)),
                                       ToLowerCase(resolveValue(right)))
      fallbackCompare == localeCompareText(left.agent.name, right.agent.name)
  IN IF baseCompare # 0
     THEN (IF routingSortDirection = "asc" THEN baseCompare ELSE -baseCompare)
     ELSE IF routingSortDirection = "asc" THEN fallbackCompare ELSE -fallbackCompare

\* const sortedRoutingRows = [...routingRows].sort(...)
sortedRoutingRows ==
  SortWith(routingRows,
           [left \in Range(routingRows), right \in Range(routingRows) |->
              routingCompare(left, right)])

\* setProviderSort(key): the same key flips the direction, another key is
\* selected ascending
setProviderSort(key) ==
  /\ page = "routingTable" /\ mode = "provider-auth"
  /\ IF providerSortKey = key
     THEN /\ providerSortDirection' = IF providerSortDirection = "asc" THEN "desc" ELSE "asc"
          /\ UNCHANGED providerSortKey
     ELSE /\ providerSortKey' = key
          /\ providerSortDirection' = "asc"
  /\ UNCHANGED <<modelSortKey, modelSortDirection, routingSortKey, routingSortDirection>>
  /\ UNCHANGED <<page, authVars, dataVars, propVars, formVars, routingVars, syncVars,
                 error, netVars>>

\* setModelSort(key)
setModelSort(key) ==
  /\ page = "routingTable" /\ mode = "catalog"
  /\ IF modelSortKey = key
     THEN /\ modelSortDirection' = IF modelSortDirection = "asc" THEN "desc" ELSE "asc"
          /\ UNCHANGED modelSortKey
     ELSE /\ modelSortKey' = key
          /\ modelSortDirection' = "asc"
  /\ UNCHANGED <<providerSortKey, providerSortDirection, routingSortKey,
                 routingSortDirection>>
  /\ UNCHANGED <<page, authVars, dataVars, propVars, formVars, routingVars, syncVars,
                 error, netVars>>

\* setRoutingSort(key); the routing table has its header only when it has rows
setRoutingSort(key) ==
  /\ page = "routingTable" /\ mode = "routing"
  /\ Len(routingRows) # 0
  /\ IF routingSortKey = key
     THEN /\ routingSortDirection' = IF routingSortDirection = "asc" THEN "desc" ELSE "asc"
          /\ UNCHANGED routingSortKey
     ELSE /\ routingSortKey' = key
          /\ routingSortDirection' = "asc"
  /\ UNCHANGED <<providerSortKey, providerSortDirection, modelSortKey, modelSortDirection>>
  /\ UNCHANGED <<page, authVars, dataVars, propVars, formVars, routingVars, syncVars,
                 error, netVars>>

\* Names of rows: equal but for case, and different
RowNames == {<<"a">>, <<"A">>, <<"b">>}
ProviderIds == <<"p1", "p2", "p3", "p4">>

\* The rows of a table come in three kinds, and the name a tie is broken by
\* is free.  LlmProviderAuthRead rows by kind: on "g1" with a secret, the path
\* "a" and an updated_at that does not parse; on "g2" without a secret, with
\* the path "b" and a time; on "g1" with a secret, the path "ab", a later time
ProviderRowLists ==
  UNION {
    {[i \in 1..n |->
        [id |-> ProviderIds[i],
         gateway_id |-> IF d[i] = 2 THEN "g2" ELSE "g1",
         provider |-> p[i],
         config_path |-> <<<<"a">>, <<"b">>, <<"a", "b">>>>[d[i]],
         has_secret |-> d[i] # 2,
         updated_at |-> <<Null, Some(1), Some(2)>>[d[i]]]] :
       p \in [1..n -> RowNames], d \in [1..n -> 1..3]} :
    n \in 0..MaxRows}

\* LlmModelRead rows by kind: on "g1" without settings and with an updated_at
\* that does not parse; on "g2" with one setting and a time; on "g1" with two
\* settings and a later time
ModelRowLists ==
  UNION {
    {[i \in 1..n |->
        [id |-> IdNames[i],
         gateway_id |-> IF d[i] = 2 THEN "g2" ELSE "g1",
         created_at |-> Stamps[1],
         display_name |-> p[i],
         model_id |-> <<<<"b">>, <<"a">>, <<"a", "b">>>>[d[i]],
         provider |-> <<<<"a">>, <<"A">>, <<"b">>>>[d[i]],
         settings |-> <<Null, Some([type |-> "object", keys |-> {"k"}]),
                        Some([type |-> "object", keys |-> {"k", "j"}])>>[d[i]],
         updated_at |-> <<Null, Some(1), Some(2)>>[d[i]]]] :
       p \in [1..n -> RowNames], d \in [1..n -> 1..3]} :
    n \in 0..MaxRows}

\* The catalog the routing table resolves primaries in: one model on "g1"
RoutingModels ==
  <<[id |-> "m1", gateway_id |-> "g1", created_at |-> Stamps[1],
     display_name |-> <<"b">>, model_id |-> <<"a">>, provider |-> <<"a">>,
     settings |-> Null, updated_at |-> Null]>>

\* AgentRead rows by kind: on "g1" without role, board and primary; on "g2"
\* with a role, the board and the primary "m1"; on "g2" with another role, a
\* board and a primary that are not fetched
AgentRowLists ==
  UNION {
    {[i \in 1..n |->
        [id |-> AgentNames[i],
         gateway_id |-> IF d[i] = 1 THEN "g1" ELSE "g2",
         name |-> p[i],
         role |-> <<Null, Some(<<" ", "a">>), Some(<<"b">>)>>[d[i]],
         board_id |-> <<Null, Some("b1"), Some("b9")>>[d[i]],
         primary_model_id |-> <<Null, Some("m1"), Some("m9")>>[d[i]],
         fallback_model_ids |-> Null]] :
       p \in [1..n -> RowNames], d \in [1..n -> 1..3]} :
    n \in 0..MaxRows}

\* The workspace of an admin with its lists fetched; the rows of the table in
\* view are free, and the second gateway may be missing from the gateway list
InitTables ==
  /\ page = "routingTable"
  /\ isSignedIn = TRUE /\ isAdmin = TRUE
  /\ gateways \in {<<"g1", "g2">>, <<"g1">>}
  /\ mode \in {"provider-auth", "catalog", "routing"}
  /\ providerAuth \in IF mode = "provider-auth" THEN ProviderRowLists ELSE {<<>>}
  /\ models \in IF mode = "catalog" THEN ModelRowLists
                ELSE IF mode = "routing" THEN {RoutingModels} ELSE {<<>>}
  /\ agents \in IF mode = "routing" THEN AgentRowLists ELSE {<<>>}
  /\ loaded = PageQueries
  /\ itemId = "" /\ requestedGateway = ""
  /\ FreshComponent

NextTables ==
  \/ \E key \in ProviderSortKeys : setProviderSort(key)
  \/ \E key \in ModelSortKeys : setModelSort(key)
  \/ \E key \in RoutingSortKeys : setRoutingSort(key)

SpecTables == InitTables /\ [][NextTables]_vars

NextRoutingEdit ==
  \/ SelectPrimary
  \/ ToggleFallback
  \/ handleSave
  \/ handleRevert
  \/ clearOverride
  \/ updateAgentOnSuccess
  \/ updateAgentOnInvalidated
  \/ UpdateAgentFails

SpecRoutingEdit == InitRoutingEdit /\ [][NextRoutingEdit]_vars

\* ====================================================== CatalogModelFormPage
\* ------------------------------------------------------------------- JSON
\* Settings text is a sequence of tokens: whitespace " ", the punctuation
\* "{" "}" "[" "]" ":", the key "k" (a quoted string), the number "1", "null".
\* JSON values: null, a number, a string, an array, an object (its key set).
JsonNull == [type |-> "null"]
JsonNumber == [type |-> "number"]
JsonString == [type |-> "string"]
JsonArray == [type |-> "array"]
JsonObject(keys) == [type |-> "object", keys |-> keys]

\* JSON.parse on the texts of SettingsTexts: whitespace between tokens is
\* skipped; the result is Some(value), or Null for a SyntaxError.
JSONparse(text) ==
  LET tokens == SelectSeq(text, LAMBDA c : c # " ")
  IN IF tokens = <<"null">> THEN Some(JsonNull)
     ELSE IF tokens = <<"1">> THEN Some(JsonNumber)
     ELSE IF tokens = <<"k">> THEN Some(JsonString)
     ELSE IF tokens = <<"[", "]">> THEN Some(JsonArray)
     ELSE IF tokens = <<"[", "1", "]">> THEN Some(JsonArray)
     ELSE IF tokens = <<"{", "}">> THEN Some(JsonObject({}))
     ELSE IF tokens = <<"{", "k", ":", "1", "}">> THEN Some(JsonObject({"k"}))
     ELSE Null

\* JSON.stringify(settings, null, 2) of an object
JSONstringify(object) ==
  IF object.keys = {} THEN <<"{", "}">>
  ELSE <<"{", " ", "k", ":", " ", "1", " ", "}">>

\* What the settings textarea may hold
SettingsTexts ==
  {<<" ">>, <<" ", "{", "}", " ">>, <<"{", "k", ":", "1", "}">>, <<"[", "]">>,
   <<"null">>, <<"1">>, <<"{">>}

\* What the text inputs may hold: only whitespace, or a padded mixed-case value
ProviderTexts == {<<" ">>, <<" ", "A", "b", " ">>}
ModelIdTexts == {<<" ", " ">>, <<"a", " ", "A", " ">>}
DisplayNameTexts == {<<" ">>, <<" ", "B", "a">>}

\* The ?gateway= parameter: absent, a listed gateway, an unknown gateway
RequestedGateways == {"", "g2", "g9"}

\* Catalog entries the models query may return for the model under edit
CatalogItems ==
  {[id |-> "m1", gateway_id |-> "g2", created_at |-> Stamps[1],
    provider |-> <<"a">>, model_id |-> <<"a", "b">>, display_name |-> <<"A">>,
    settings |-> Null],
   [id |-> "m1", gateway_id |-> "g9", created_at |-> Stamps[1],
    provider |-> <<"a">>, model_id |-> <<"a", "b">>, display_name |-> <<"A">>,
    settings |-> Some(JsonObject({"k"}))]}

InitCatalogForm ==
  /\ page = "catalogForm"
  /\ isSignedIn \in BOOLEAN /\ isAdmin \in BOOLEAN
  /\ mode \in {"create", "edit"}
  /\ agents = <<>> /\ providerAuth = <<>>
  /\ requestedGateway \in RequestedGateways
  /\ IF QueriesEnabled
     THEN /\ gateways \in {<<>>, <<"g1", "g2">>}
          /\ IF mode = "edit"
             THEN /\ itemId \in {"m1", ""}
                  /\ \/ loaded = PageQueries \ {"models"} /\ models = <<>>
                     \/ loaded = PageQueries /\ models \in {<<>>} \cup {<<m>> : m \in CatalogItems}
             ELSE itemId = "" /\ loaded = PageQueries /\ models = <<>>
     ELSE /\ gateways = <<>> /\ models = <<>> /\ loaded = {}
          /\ itemId \in (IF mode = "edit" THEN {"m1"} ELSE {""})
  /\ FreshComponent

\* modelIdParam
modelIdParam == IF mode = "edit" THEN itemId ELSE ""

\* currentItem of the catalog form
catalogCurrentItem ==
  IF mode # "edit" \/ modelIdParam = "" THEN Null ELSE FindById(models, modelIdParam)

\* gatewayId of a form page (the same expression in both form pages)
formGatewayId(currentItem) ==
  IF gateways = <<>> THEN ""
  ELSE IF mode = "edit" /\ currentItem # Null /\ currentItem[1].gateway_id # ""
  THEN currentItem[1].gateway_id
  ELSE IF gatewayDraft # Null /\ gatewayDraft[1] # "" /\ gatewayDraft[1] \in Range(gateways)
  THEN gatewayDraft[1]
  ELSE IF requestedGateway # "" /\ requestedGateway \in Range(gateways)
  THEN requestedGateway
  ELSE gateways[1]

catalogGatewayId == formGatewayId(catalogCurrentItem)

\* draft ?? (props.mode === "edit" ? (currentItem?.field ?? "") : "")
catalogProvider ==
  Coalesce(providerDraft,
           IF mode = "edit" /\ catalogCurrentItem # Null
           THEN catalogCurrentItem[1].provider ELSE <<>>)

catalogModelId ==
  Coalesce(modelIdDraft,
           IF mode = "edit" /\ catalogCurrentItem # Null
           THEN catalogCurrentItem[1].model_id ELSE <<>>)

catalogDisplayName ==
  Coalesce(displayNameDraft,
           IF mode = "edit" /\ catalogCurrentItem # Null
           THEN catalogCurrentItem[1].display_name ELSE <<>>)

settingsText ==
  Coalesce(settingsDraft,
           IF mode = "edit" /\ catalogCurrentItem # Null
              /\ catalogCurrentItem[1].settings # Null
           THEN JSONstringify(catalogCurrentItem[1].settings[1]) ELSE <<>>)

catalogIsBusy == isPending("createModel") \/ isPending("updateModel")

catalogMissingEditItem ==
  mode = "edit" /\ "models" \in loaded /\ catalogCurrentItem = Null

catalogFormShown ==
  page = "catalogForm" /\ location = "page" /\ ~catalogMissingEditItem

\* Gateway select: disabled={props.mode === "edit" || isBusy}
catalogSetGatewayDraft(value) ==
  /\ catalogFormShown /\ mode # "edit" /\ ~catalogIsBusy
  /\ value \in Range(gateways)
  /\ gatewayDraft' = Some(value)
  /\ UNCHANGED <<page, authVars, dataVars, propVars, sortVars, providerDraft, modelIdDraft,
                 displayNameDraft, settingsDraft, configPathDraft, secret, routingVars,
                 syncVars, error, netVars>>

catalogSetProviderDraft(value) ==
  /\ catalogFormShown /\ ~catalogIsBusy
  /\ providerDraft' = Some(value)
  /\ UNCHANGED <<page, authVars, dataVars, propVars, sortVars, gatewayDraft, modelIdDraft,
                 displayNameDraft, settingsDraft, configPathDraft, secret, routingVars,
                 syncVars, error, netVars>>

setModelIdDraft(value) ==
  /\ catalogFormShown /\ ~catalogIsBusy
  /\ modelIdDraft' = Some(value)
  /\ UNCHANGED <<page, authVars, dataVars, propVars, sortVars, gatewayDraft, providerDraft,
                 displayNameDraft, settingsDraft, configPathDraft, secret, routingVars,
                 syncVars, error, netVars>>

setDisplayNameDraft(value) ==
  /\ catalogFormShown /\ ~catalogIsBusy
  /\ displayNameDraft' = Some(value)
  /\ UNCHANGED <<page, authVars, dataVars, propVars, sortVars, gatewayDraft, providerDraft,
                 modelIdDraft, settingsDraft, configPathDraft, secret, routingVars,
                 syncVars, error, netVars>>

setSettingsDraft(value) ==
  /\ catalogFormShown /\ ~catalogIsBusy
  /\ settingsDraft' = Some(value)
  /\ UNCHANGED <<page, authVars, dataVars, propVars, sortVars, gatewayDraft, providerDraft,
                 modelIdDraft, displayNameDraft, configPathDraft, secret, routingVars,
                 syncVars, error, netVars>>

\* provider.trim().toLowerCase() without the trim and the lower-casing.
normalizeProviderRaw(text) == text

\* provider.trim().toLowerCase()
normalizeProvider(text) == ToLowerCase(Trim(text))

\* !parsed: of the values JSONparse yields only null is falsy
Falsy(value) == value.type = "null"

\* typeof value === "object" holds of null, arrays and objects
TypeofObject(value) == value.type \in {"null", "array", "object"}

\* The settings check without the Array.isArray test.
settingsAcceptArrays(text) ==
  LET parsed == JSONparse(text)
  IN IF parsed = Null THEN [ok |-> FALSE, settings |-> Null]
     ELSE IF Falsy(parsed[1]) \/ ~TypeofObject(parsed[1])
     THEN [ok |-> FALSE, settings |-> Null]
     ELSE [ok |-> TRUE, settings |-> parsed]

\* The try block of handleSubmit on the trimmed, non-empty settings text:
\* ok is false when JSON.parse throws, or the value is falsy, or not of type
\* object, or an array
settingsFromJson(text) ==
  LET parsed == JSONparse(text)
  IN IF parsed = Null THEN [ok |-> FALSE, settings |-> Null]
     ELSE IF Falsy(parsed[1]) \/ ~TypeofObject(parsed[1]) \/ parsed[1].type = "array"
     THEN [ok |-> FALSE, settings |-> Null]
     ELSE [ok |-> TRUE, settings |-> parsed]

\* Blank settings sent as no settings in either mode.
blankSettingsOmitted == Null

\* The settings of a submit with blank settings text:
\* else if (props.mode === "edit") settings = {};  otherwise undefined
blankSettings == IF mode = "edit" THEN Some(JsonObject({})) ELSE Null

\* handleSubmit of the catalog form; the submit button is
\* disabled={isBusy || missingEditItem}
catalogHandleSubmit ==
  /\ catalogFormShown /\ ~catalogIsBusy
  /\ LET normalizedProvider == normalizeProvider(catalogProvider)
         normalizedModelId == Trim(catalogModelId)
         normalizedDisplayName == Trim(catalogDisplayName)
         normalizedSettings == Trim(settingsText)
         fromJson == settingsFromJson(normalizedSettings)
         settings == IF normalizedSettings # <<>> THEN fromJson.settings
                     ELSE blankSettings
     IN IF catalogGatewayId = ""
        THEN /\ error' = Some("Select a gateway first.")
             /\ sent' = 0
             /\ UNCHANGED <<mut, request>>
        ELSE IF normalizedProvider = <<>> \/ normalizedModelId = <<>>
                \/ normalizedDisplayName = <<>>
        THEN /\ error' = Some("Provider, model ID, and display name are required.")
             /\ sent' = 0
             /\ UNCHANGED <<mut, request>>
        ELSE IF normalizedSettings # <<>> /\ ~fromJson.ok
        THEN /\ error' = Some("Settings must be a valid JSON object.")
             /\ sent' = 0
             /\ UNCHANGED <<mut, request>>
        ELSE IF mode = "create"
        THEN /\ error' = Null
             /\ mut' = [mut EXCEPT !["createModel"] = "pending"]
             /\ request' = Some([kind |-> "createModel",
                                 gateway_id |-> catalogGatewayId,
                                 provider |-> normalizedProvider,
                                 model_id |-> normalizedModelId,
                                 display_name |-> normalizedDisplayName,
                                 settings |-> settings])
             /\ sent' = 1
        ELSE IF modelIdParam = ""
        THEN /\ error' = Some("Missing model identifier.")
             /\ sent' = 0
             /\ UNCHANGED <<mut, request>>
        ELSE /\ error' = Null
             /\ mut' = [mut EXCEPT !["updateModel"] = "pending"]
             /\ request' = Some([kind |-> "updateModel",
                                 modelId |-> modelIdParam,
                                 provider |-> normalizedProvider,
                                 model_id |-> normalizedModelId,
                                 display_name |-> normalizedDisplayName,
                                 settings |-> settings])
             /\ sent' = 1
  /\ UNCHANGED <<page, authVars, dataVars, propVars, sortVars, formVars, routingVars, syncVars,
                 invalidated, location>>

\* The mutation of the catalog form that the mode uses
catalogMutation == IF mode = "create" THEN "createModel" ELSE "updateModel"

\* onSuccess with router.push ahead of the awaited invalidateQueries(modelsKey).
catalogOnSuccessPushFirst ==
  /\ page = "catalogForm"
  /\ mut[catalogMutation] = "pending"
  /\ mut' = [mut EXCEPT ![catalogMutation] = "settling"]
  /\ location' = withGatewayQuery("/models/catalog", catalogGatewayId)
  /\ UNCHANGED <<page, authVars, dataVars, propVars, sortVars, formVars, routingVars, syncVars,
                 error, request, sent, invalidated>>

\* createMutation / updateMutation: the request succeeded; onSuccess awaits
\* invalidateQueries(modelsKey)
catalogOnSuccess ==
  /\ page = "catalogForm"
  /\ mut[catalogMutation] = "pending"
  /\ mut' = [mut EXCEPT ![catalogMutation] = "settling"]
  /\ UNCHANGED <<page, authVars, dataVars, propVars, sortVars, formVars, routingVars, syncVars,
                 error, request, sent, invalidated, location>>

\* onSuccess after the await: router.push(withGatewayQuery("/models/catalog", gatewayId))
catalogOnInvalidated ==
  /\ page = "catalogForm"
  /\ mut[catalogMutation] = "settling"
  /\ invalidated' = invalidated \cup {"modelsKey"}
  /\ location' = withGatewayQuery("/models/catalog", catalogGatewayId)
  /\ mut' = [mut EXCEPT ![catalogMutation] = "idle"]
  /\ UNCHANGED <<page, authVars, dataVars, propVars, sortVars, formVars, routingVars, syncVars,
                 error, request, sent>>

\* createMutation / updateMutation onError
catalogOnError(message) ==
  /\ page = "catalogForm"
  /\ mut[catalogMutation] = "pending"
  /\ error' = Some(OrDefault(message,
                             IF mode = "create" THEN "Unable to create model."
                             ELSE "Unable to update model."))
  /\ mut' = [mut EXCEPT ![catalogMutation] = "idle"]
  /\ UNCHANGED <<page, authVars, dataVars, propVars, sortVars, formVars, routingVars, syncVars,
                 request, sent, invalidated, location>>

CatalogSelectGateway == \E value \in GatewayIds : catalogSetGatewayDraft(value)
CatalogTypeProvider == \E value \in ProviderTexts : catalogSetProviderDraft(value)
CatalogTypeModelId == \E value \in ModelIdTexts : setModelIdDraft(value)
CatalogTypeDisplayName == \E value \in DisplayNameTexts : setDisplayNameDraft(value)
CatalogTypeSettings == \E value \in SettingsTexts : setSettingsDraft(value)
CatalogFails == \E message \in ErrorMessages : catalogOnError(message)

NextCatalogForm ==
  \/ CatalogSelectGateway
  \/ CatalogTypeProvider
  \/ CatalogTypeModelId
  \/ CatalogTypeDisplayName
  \/ CatalogTypeSettings
  \/ catalogHandleSubmit
  \/ catalogOnSuccess
  \/ catalogOnInvalidated
  \/ CatalogFails

SpecCatalogForm == InitCatalogForm /\ [][NextCatalogForm]_vars

\* ====================================================== ProviderAuthFormPage
ConfigPathTexts == {<<" ">>, <<" ", "a", "b">>}
SecretTexts == {<<" ">>, <<" ", "b", " ">>}

InitProviderForm ==
  /\ page = "providerForm"
  /\ isSignedIn \in BOOLEAN /\ isAdmin \in BOOLEAN
  /\ mode \in {"create", "edit"}
  /\ agents = <<>> /\ models = <<>>
  /\ requestedGateway \in RequestedGateways
  /\ IF QueriesEnabled
     THEN gateways \in {<<>>, <<"g1", "g2">>}
     ELSE gateways = <<>>
  /\ itemId \in (IF mode # "edit" THEN {""}
                 ELSE IF QueriesEnabled THEN {"p1", ""} ELSE {"p1"})
  /\ IF providerAuthQueryEnabled
     THEN \/ loaded = PageQueries \ {"providerAuth"} /\ providerAuth = <<>>
          \/ loaded = PageQueries /\ providerAuth \in ProviderAuthLists
     ELSE /\ providerAuth = <<>>
          /\ loaded = IF QueriesEnabled THEN PageQueries \ {"providerAuth"} ELSE {}
  /\ FreshComponent

\* providerAuthId
providerAuthId == IF mode = "edit" THEN itemId ELSE ""

\* currentItem of the provider auth form
providerCurrentItem ==
  IF mode # "edit" \/ providerAuthId = "" THEN Null
  ELSE FindById(providerAuth, providerAuthId)

providerGatewayId == formGatewayId(providerCurrentItem)

providerProvider ==
  Coalesce(providerDraft,
           IF mode = "edit" /\ providerCurrentItem # Null
           THEN providerCurrentItem[1].provider ELSE <<>>)

configPath ==
  Coalesce(configPathDraft,
           IF mode = "edit" /\ providerCurrentItem # Null
           THEN providerCurrentItem[1].config_path ELSE <<>>)

providerIsBusy == isPending("createProviderAuth") \/ isPending("updateProviderAuth")

providerMissingEditItem ==
  mode = "edit" /\ "providerAuth" \in loaded /\ providerCurrentItem = Null

providerFormShown ==
  page = "providerForm" /\ location = "page" /\ ~providerMissingEditItem

\* Gateway select: disabled={props.mode === "edit" || isBusy}
providerSetGatewayDraft(value) ==
  /\ providerFormShown /\ mode # "edit" /\ ~providerIsBusy
  /\ value \in Range(gateways)
  /\ gatewayDraft' = Some(value)
  /\ UNCHANGED <<page, authVars, dataVars, propVars, sortVars, providerDraft, modelIdDraft,
                 displayNameDraft, settingsDraft, configPathDraft, secret, routingVars,
                 syncVars, error, netVars>>

providerSetProviderDraft(value) ==
  /\ providerFormShown /\ ~providerIsBusy
  /\ providerDraft' = Some(value)
  /\ UNCHANGED <<page, authVars, dataVars, propVars, sortVars, gatewayDraft, modelIdDraft,
                 displayNameDraft, settingsDraft, configPathDraft, secret, routingVars,
                 syncVars, error, netVars>>

setConfigPathDraft(value) ==
  /\ providerFormShown /\ ~providerIsBusy
  /\ configPathDraft' = Some(value)
  /\ UNCHANGED <<page, authVars, dataVars, propVars, sortVars, gatewayDraft, providerDraft,
                 modelIdDraft, displayNameDraft, settingsDraft, secret, routingVars,
                 syncVars, error, netVars>>

setSecret(value) ==
  /\ providerFormShown /\ ~providerIsBusy
  /\ secret' = value
  /\ UNCHANGED <<page, authVars, dataVars, propVars, sortVars, gatewayDraft, providerDraft,
                 modelIdDraft, displayNameDraft, settingsDraft, configPathDraft,
                 routingVars, syncVars, error, netVars>>

\* The config path sent as typed, without the providers.<provider>.apiKey default.
normalizeConfigPathNoDefault(path, normalizedProvider) == Trim(path)

\* configPath.trim() || `providers.${normalizedProvider}.apiKey`
normalizeConfigPath(path, normalizedProvider) ==
  IF Trim(path) # <<>> THEN Trim(path)
  ELSE <<"providers.">> \o normalizedProvider \o <<".apiKey">>

\* The secret of an update sent as typed even when it is blank.
updateSecretSendBlank(text) == Some(Trim(text))

\* secret: secret.trim() ? secret.trim() : undefined
updateSecret(text) == IF Trim(text) # <<>> THEN Some(Trim(text)) ELSE Null

\* handleSubmit of the provider auth form; the submit button is
\* disabled={isBusy || missingEditItem}
providerHandleSubmit ==
  /\ providerFormShown /\ ~providerIsBusy
  /\ LET normalizedProvider == normalizeProvider(providerProvider)
         normalizedConfigPath == normalizeConfigPath(configPath, normalizedProvider)
         normalizedSecret == Trim(secret)
     IN IF providerGatewayId = ""
        THEN /\ error' = Some("Select a gateway first.")
             /\ sent' = 0
             /\ UNCHANGED <<mut, request>>
        ELSE IF normalizedProvider = <<>>
        THEN /\ error' = Some("Provider is required.")
             /\ sent' = 0
             /\ UNCHANGED <<mut, request>>
        ELSE IF mode = "create"
        THEN IF normalizedSecret = <<>>
             THEN /\ error' = Some("Secret is required.")
                  /\ sent' = 0
                  /\ UNCHANGED <<mut, request>>
             ELSE /\ error' = Null
                  /\ mut' = [mut EXCEPT !["createProviderAuth"] = "pending"]
                  /\ request' = Some([kind |-> "createProviderAuth",
                                      gateway_id |-> providerGatewayId,
                                      provider |-> normalizedProvider,
                                      config_path |-> normalizedConfigPath,
                                      secret |-> normalizedSecret])
                  /\ sent' = 1
        ELSE IF providerAuthId = ""
        THEN /\ error' = Some("Missing provider auth identifier.")
             /\ sent' = 0
             /\ UNCHANGED <<mut, request>>
        ELSE /\ error' = Null
             /\ mut' = [mut EXCEPT !["updateProviderAuth"] = "pending"]
             /\ request' = Some([kind |-> "updateProviderAuth",
                                 providerAuthId |-> providerAuthId,
                                 provider |-> normalizedProvider,
                                 config_path |-> normalizedConfigPath,
                                 secret |-> updateSecret(secret)])
             /\ sent' = 1
  /\ UNCHANGED <<page, authVars, dataVars, propVars, sortVars, formVars, routingVars, syncVars,
                 invalidated, location>>

\* The mutation of the provider auth form that the mode uses
providerMutation ==
  IF mode = "create" THEN "createProviderAuth" ELSE "updateProviderAuth"

\* createMutation / updateMutation: the request succeeded; onSuccess awaits
\* invalidateQueries(providerAuthKey)
providerOnSuccess ==
  /\ page = "providerForm"
  /\ mut[providerMutation] = "pending"
  /\ mut' = [mut EXCEPT ![providerMutation] = "settling"]
  /\ UNCHANGED <<page, authVars, dataVars, propVars, sortVars, formVars, routingVars, syncVars,
                 error, request, sent, invalidated, location>>

\* onSuccess after the await:
\* router.push(withGatewayQuery("/models/provider-auth", gatewayId))
providerOnInvalidated ==
  /\ page = "providerForm"
  /\ mut[providerMutation] = "settling"
  /\ invalidated' = invalidated \cup {"providerAuthKey"}
  /\ location' = withGatewayQuery("/models/provider-auth", providerGatewayId)
  /\ mut' = [mut EXCEPT ![providerMutation] = "idle"]
  /\ UNCHANGED <<page, authVars, dataVars, propVars, sortVars, formVars, routingVars, syncVars,
                 error, request, sent>>

\* createMutation / updateMutation onError
providerOnError(message) ==
  /\ page = "providerForm"
  /\ mut[providerMutation] = "pending"
  /\ error' = Some(OrDefault(message,
                             IF mode = "create" THEN "Unable to create provider auth entry."
                             ELSE "Unable to update provider auth entry."))
  /\ mut' = [mut EXCEPT ![providerMutation] = "idle"]
  /\ UNCHANGED <<page, authVars, dataVars, propVars, sortVars, formVars, routingVars, syncVars,
                 request, sent, invalidated, location>>

ProviderSelectGateway == \E value \in GatewayIds : providerSetGatewayDraft(value)
ProviderTypeProvider == \E value \in ProviderTexts : providerSetProviderDraft(value)
ProviderTypeConfigPath == \E value \in ConfigPathTexts : setConfigPathDraft(value)
ProviderTypeSecret == \E value \in SecretTexts : setSecret(value)
ProviderFails == \E message \in ErrorMessages : providerOnError(message)

NextProviderForm ==
  \/ ProviderSelectGateway
  \/ ProviderTypeProvider
  \/ ProviderTypeConfigPath
  \/ ProviderTypeSecret
  \/ providerHandleSubmit
  \/ providerOnSuccess
  \/ providerOnInvalidated
  \/ ProviderFails

SpecProviderForm == InitProviderForm /\ [][NextProviderForm]_vars

\* ============================================================ ModelsSyncPage
GatewayLists == {<<>>, <<"g2">>, <<"g1", "g2">>}

InitSync ==
  /\ page = "sync"
  /\ isSignedIn \in BOOLEAN /\ isAdmin \in BOOLEAN
  /\ mode = "sync" /\ itemId = "" /\ requestedGateway = ""
  /\ models = <<>> /\ agents = <<>>
  /\ IF QueriesEnabled
     THEN /\ gateways \in GatewayLists
          /\ providerAuth \in ProviderAuthLists
          /\ loaded = PageQueries
     ELSE /\ gateways = <<>> /\ providerAuth = <<>> /\ loaded = {}
  /\ FreshComponent

\* The selection used as it stands, listed or not.
activeGatewayIdStale ==
  IF activeGatewayDraft # Null /\ activeGatewayDraft[1] # ""
  THEN activeGatewayDraft[1]
  ELSE IF gateways # <<>> THEN gateways[1] ELSE ""

\* activeGatewayId
activeGatewayId ==
  IF activeGatewayDraft # Null /\ activeGatewayDraft[1] # ""
     /\ activeGatewayDraft[1] \in Range(gateways)
  THEN activeGatewayDraft[1]
  ELSE IF gateways # <<>> THEN gateways[1] ELSE ""

\* A busy flag that reads the pull alone.
syncIsBusyPullOnly == isPending("pull")

\* isBusy of the sync page
syncIsBusy == isPending("pull") \/ isPending("sync")

\* Gateway select: disabled={gateways.length === 0 || isBusy}
setActiveGatewayDraft(value) ==
  /\ page = "sync"
  /\ gateways # <<>> /\ ~syncIsBusy
  /\ value \in Range(gateways)
  /\ activeGatewayDraft' = Some(value)
  /\ UNCHANGED <<page, authVars, dataVars, propVars, sortVars, formVars, routingVars,
                 syncMessage, error, netVars>>

\* The gateways query delivers a new list (refetchOnMount: "always").
gatewaysRefetched(list) ==
  /\ page = "sync" /\ QueriesEnabled
  /\ gateways' = list
  /\ UNCHANGED <<page, authVars, models, agents, providerAuth, loaded, propVars, sortVars,
                 formVars, routingVars, syncVars, error, netVars>>

\* The click of a button of the sync page: disabled={!activeGatewayId || isBusy}
runGateway(kind) ==
  /\ page = "sync"
  /\ activeGatewayId # "" /\ ~syncIsBusy
  /\ IF activeGatewayId = ""
     THEN /\ syncMessage' = Some("Select a gateway first.")
          /\ sent' = 0
          /\ UNCHANGED <<mut, request>>
     ELSE /\ syncMessage' = Null
          /\ mut' = [mut EXCEPT ![kind] = "pending"]
          /\ request' = Some([kind |-> kind, gatewayId |-> activeGatewayId])
          /\ sent' = 1
  /\ UNCHANGED <<page, authVars, dataVars, propVars, sortVars, formVars, routingVars,
                 activeGatewayDraft, error, invalidated, location>>

runGatewayPull == runGateway("pull")

runGatewaySync == runGateway("sync")

\* The text onSuccess builds from the result of a push or a pull
resultMessage(kind, warnings) ==
  IF kind = "sync"
  THEN IF warnings > 0 THEN "Patched. Completed with warning(s)."
       ELSE "Patched. Synced cleanly."
  ELSE IF warnings > 0 THEN "Imported. Imported with warning(s)."
       ELSE "Imported. Imported cleanly."

\* syncMutation / pullMutation onSuccess up to the await
gatewayOnSuccess(kind, responseStatus, warnings) ==
  /\ page = "sync"
  /\ mut[kind] = "pending"
  /\ syncMessage' = IF responseStatus = 200 THEN Some(resultMessage(kind, warnings))
                    ELSE syncMessage
  /\ mut' = [mut EXCEPT ![kind] = "settling"]
  /\ UNCHANGED <<page, authVars, dataVars, propVars, sortVars, formVars, routingVars,
                 activeGatewayDraft, error, request, sent, invalidated, location>>

\* The three invalidations of onSuccess have completed
gatewayOnInvalidated(kind) ==
  /\ page = "sync"
  /\ mut[kind] = "settling"
  /\ invalidated' = invalidated \cup {"modelsKey", "providerAuthKey", "agentsKey"}
  /\ mut' = [mut EXCEPT ![kind] = "idle"]
  /\ UNCHANGED <<page, authVars, dataVars, propVars, sortVars, formVars, routingVars, syncVars,
                 error, request, sent, location>>

\* onError that sends the failed request once more.
gatewayOnErrorRetry(kind, message) ==
  /\ page = "sync"
  /\ mut[kind] = "pending" /\ sent < 2
  /\ syncMessage' = Some(OrDefault(message, "Retrying."))
  /\ sent' = sent + 1
  /\ UNCHANGED <<page, authVars, dataVars, propVars, sortVars, formVars, routingVars,
                 activeGatewayDraft, error, mut, request, invalidated, location>>

\* syncMutation / pullMutation onError
gatewayOnError(kind, message) ==
  /\ page = "sync"
  /\ mut[kind] = "pending"
  /\ syncMessage' = Some(OrDefault(message, IF kind = "sync" THEN "Gateway sync failed."
                                            ELSE "Gateway pull failed."))
  /\ mut' = [mut EXCEPT ![kind] = "idle"]
  /\ UNCHANGED <<page, authVars, dataVars, propVars, sortVars, formVars, routingVars,
                 activeGatewayDraft, error, request, sent, invalidated, location>>

SelectActiveGateway == \E value \in GatewayIds : setActiveGatewayDraft(value)
GatewaysRefetch == \E list \in GatewayLists : gatewaysRefetched(list)
PullSucceeds ==
  \E responseStatus \in {200, 202}, warnings \in {0, 1} :
    gatewayOnSuccess("pull", responseStatus, warnings)
PullInvalidated == gatewayOnInvalidated("pull")
PullFails == \E message \in ErrorMessages : gatewayOnError("pull", message)
SyncSucceeds ==
  \E responseStatus \in {200, 202}, warnings \in {0, 1} :
    gatewayOnSuccess("sync", responseStatus, warnings)
SyncInvalidated == gatewayOnInvalidated("sync")
SyncFails == \E message \in ErrorMessages : gatewayOnError("sync", message)

NextSync ==
  \/ SelectActiveGateway
  \/ GatewaysRefetch
  \/ runGatewayPull
  \/ runGatewaySync
  \/ PullSucceeds
  \/ PullInvalidated
  \/ PullFails
  \/ SyncSucceeds
  \/ SyncInvalidated
  \/ SyncFails

SpecSync == InitSync /\ [][NextSync]_vars

\* ================================================================ all pages
Init ==
  \/ InitRoutingTable
  \/ InitRoutingEdit
  \/ InitCatalogForm
  \/ InitProviderForm
  \/ InitSync

Next ==
  \/ NextRoutingTable
  \/ NextRoutingEdit
  \/ NextCatalogForm
  \/ NextProviderForm
  \/ NextSync

Spec == Init /\ [][Next]_vars

\* ================================================================ claims
\* The instant a created_at digit string denotes
Instant(stamp) == 10 * stamp[1] + stamp[2]

\* Indices of the fetched models that live on a gateway
OnGateway(gatewayId) == {k \in 1..Len(models) : models[k].gateway_id = gatewayId}

\* m is a fetched model of the gateway and none of the gateway was created earlier
EarliestOf(m, gatewayId) ==
  /\ \E k \in OnGateway(gatewayId) : models[k] = m
  /\ \A k \in OnGateway(gatewayId) : Instant(m.created_at) <= Instant(models[k].created_at)

\* C1: on the routing table, for every agent, the effective primary is the model
\* the agent's primary_model_id resolves to when it is set and resolves; otherwise
\* an earliest-created model of the agent's gateway; and none only when the
\* gateway has no model either.
C1_TableEffectivePrimary ==
  page = "routingTable" =>
    \A i \in 1..Len(agents) :
      LET a == agents[i]
          row == routingRows[i]
          pid == Coalesce(a.primary_model_id, "")
          resolves == pid # "" /\ \E k \in 1..Len(models) : models[k].id = pid
      IN IF resolves
         THEN row.effectivePrimary # Null /\ row.effectivePrimary[1].id = pid
         ELSE IF OnGateway(a.gateway_id) # {}
         THEN /\ row.effectivePrimary # Null
              /\ EarliestOf(row.effectivePrimary[1], a.gateway_id)
         ELSE row.effectivePrimary = Null

\* C1 witness: an agent without a resolving primary whose gateway lists a
\* later-created model before its earliest one.
C1_Witness ==
  /\ page = "routingTable"
  /\ \E i \in 1..Len(agents) :
       /\ routingRows[i].primary = Null
       /\ routingRows[i].effectivePrimary # Null
       /\ \E k \in OnGateway(agents[i].gateway_id) :
            /\ \A j \in OnGateway(agents[i].gateway_id) : k <= j
            /\ models[k] # routingRows[i].effectivePrimary[1]

\* C2: on the edit page, when no primary override is selected, the effective
\* primary shown is an earliest-created model of the agent's gateway, whatever
\* the order of the fetched list.
C2_EditDefaultIsEarliest ==
  (page = "routingEdit" /\ agent # Null /\ primaryModelId = ""
     /\ OnGateway(agent[1].gateway_id) # {}) =>
    /\ effectivePrimaryModel # Null
    /\ EarliestOf(effectivePrimaryModel[1], agent[1].gateway_id)

\* C3: on the edit page the selected primary model id is never in the fallback
\* list that is displayed, nor in one that was submitted.
C3_PrimaryNotInFallback ==
  page = "routingEdit" =>
    /\ primaryModelId # "" => primaryModelId \notin Range(fallbackModelIds)
    /\ request # Null =>
         (request[1].primary_model_id # Null =>
            request[1].primary_model_id[1] \notin
              Range(Coalesce(request[1].fallback_model_ids, <<>>)))

\* C3 witness: a primary was selected that the stored fallback list names.
C3_Witness ==
  /\ page = "routingEdit"
  /\ primaryModelDraft # Null /\ fallbackModelDraft # Null
  /\ primaryModelId # ""
  /\ primaryModelId = primaryModelDraft[1]
  /\ primaryModelId # baselinePrimaryModelId
  /\ primaryModelId \in Range(baselineFallbackModelIds)

\* Ids of the fetched models that live on the gateway of the agent under edit
AgentGatewayModelIds ==
  IF agent = Null THEN {}
  ELSE {models[k].id : k \in OnGateway(agent[1].gateway_id)}

\* C7: the routing payload sent by Save names only models of the agent's
\* gateway: the primary is such an id or null; the fallback list is null or a
\* non-empty duplicate-free list of such ids; an empty primary is sent as null.
C7_PayloadOfGateway ==
  (page = "routingEdit" /\ request # Null) =>
    LET sentPrimary == request[1].primary_model_id
        sentFallback == request[1].fallback_model_ids
    IN /\ sentPrimary # Null =>
            sentPrimary[1] # "" /\ sentPrimary[1] \in AgentGatewayModelIds
       /\ sentFallback # Null =>
            /\ sentFallback[1] # <<>>
            /\ Range(sentFallback[1]) \subseteq AgentGatewayModelIds
            /\ \A i, j \in 1..Len(sentFallback[1]) :
                 i # j => sentFallback[1][i] # sentFallback[1][j]

\* C7 witness: a payload was sent although the stored fallback list repeats an
\* id or names a model that is not of the agent's gateway.
C7_Witness ==
  /\ page = "routingEdit" /\ request # Null
  /\ request[1].fallback_model_ids # Null
  /\ \/ ~(Range(baselineFallbackModelIds) \subseteq AgentGatewayModelIds)
     \/ Len(baselineFallbackModelIds) # Cardinality(Range(baselineFallbackModelIds))
  /\ fallbackModelDraft = Null

\* ------------------------------------------------------ mutation lifecycle
\* A step in which the request of a mutation goes out
Sends(kind) == mut[kind] # "pending" /\ mut'[kind] = "pending"

\* A step in which a pending mutation settles as failed
Fails(kind) == mut[kind] = "pending" /\ mut'[kind] = "idle"

\* The error string the page holds and shows: syncMessage on the sync page,
\* error on the others
ShownError == IF page = "sync" THEN syncMessage ELSE error

\* C4: every failed mutation of these pages ends with a non-empty error string
\* held in the page's local state.
C4_FailedMutationSetsError ==
  [][\A kind \in MutationKinds :
       Fails(kind) => (ShownError' # Null /\ ShownError'[1] # "")]_vars

\* The cached list query a form page invalidates, and its mutations
FormPages == {"catalogForm", "providerForm", "routingEdit"}
ListKey ==
  CASE page = "catalogForm" -> "modelsKey"
    [] page = "providerForm" -> "providerAuthKey"
    [] OTHER -> "agentsKey"

\* C5: on the three form pages a navigation happens only out of a succeeded
\* mutation and not before the list query's invalidation has completed; a
\* failed mutation invalidates nothing, navigates nowhere and leaves the form
\* shown; nothing is invalidated except on the way to the list page.
C5_NavigateAfterInvalidation ==
  [][(page \in FormPages) =>
       (/\ (location' # location) =>
             (/\ location = "page"
              /\ \E kind \in MutationKinds :
                   mut[kind] = "settling" /\ mut'[kind] = "idle"
              /\ ListKey \in invalidated')
        /\ (invalidated' # invalidated) =>
             (\E kind \in MutationKinds : mut[kind] = "settling")
        /\ \A kind \in MutationKinds :
             /\ (mut'[kind] = "settling") => (mut[kind] \in {"pending", "settling"})
             /\ Fails(kind) =>
                  (/\ invalidated' = {} /\ invalidated = {}
                   /\ location' = "page" /\ location = "page"))]_vars

\* C5 witness: the provider auth form has navigated to the list of its gateway,
\* its list query invalidated and no mutation in flight.
C5_Witness ==
  /\ page = "providerForm"
  /\ location # "page"
  /\ "providerAuthKey" \in invalidated
  /\ \A kind \in MutationKinds : mut[kind] = "idle"

\* C6: a step sends at most one request, and only out of a state in which no
\* mutation of the page is in flight; a callback never sends; after a failure
\* nothing is pending, and the requests counted for the latest user action
\* never exceed one.
C6_NoRetry ==
  [][/\ sent' <= 1
     /\ Cardinality({kind \in MutationKinds : Sends(kind)}) <= 1
     /\ \A kind \in MutationKinds :
          /\ Sends(kind) =>
               /\ \A other \in MutationKinds : mut[other] = "idle"
               /\ sent' = 1
               /\ request' # Null /\ request'[1].kind = kind
          /\ (mut[kind] = "pending" /\ mut'[kind] # "idle") =>
               (sent' = sent /\ request' = request)
          /\ Fails(kind) =>
               /\ sent' = sent /\ request' = request
               /\ \A other \in MutationKinds : mut'[other] = "idle"]_vars

\* C6 witness: on the sync page a pull has failed and its one request stands.
C6_Witness ==
  /\ page = "sync"
  /\ syncMessage = Some("Gateway pull failed.")
  /\ request # Null /\ request[1].kind = "pull"
  /\ sent = 1
  /\ \A kind \in MutationKinds : mut[kind] = "idle"

\* ------------------------------------------------------------ form values
\* A text holds nothing but whitespace
Blank(text) == \A i \in 1..Len(text) : text[i] = " "

\* trimmed is text without its leading and trailing whitespace
IsTrimOf(trimmed, text) ==
  \E i \in 1..Len(text) + 1, j \in 0..Len(text) :
    /\ trimmed = SubSeq(text, i, j)
    /\ \A k \in 1..Len(text) : (k < i \/ k > j) => text[k] = " "
    /\ trimmed # <<>> => (trimmed[1] # " " /\ trimmed[Len(trimmed)] # " ")

\* lower is text with its upper-case letters replaced by their lower-case ones
IsLowerCaseOf(lower, text) ==
  /\ Len(lower) = Len(text)
  /\ \A i \in 1..Len(text) :
       /\ lower[i] # "A"
       /\ text[i] # "A" => lower[i] = text[i]
       /\ text[i] = "A" => lower[i] = "a"

\* normalized is text trimmed and then lower-cased
IsNormalizedProviderOf(normalized, text) ==
  \E i \in 1..Len(text) + 1, j \in 0..Len(text) :
    /\ IsTrimOf(SubSeq(text, i, j), text)
    /\ IsLowerCaseOf(normalized, SubSeq(text, i, j))

CatalogSends == Sends("createModel") \/ Sends("updateModel")

\* The gateway or one of the three required fields of the catalog form is missing
CatalogMissing ==
  \/ catalogGatewayId = ""
  \/ Blank(catalogProvider) \/ Blank(catalogModelId) \/ Blank(catalogDisplayName)

\* C8: the catalog form sends no request while the resolved gateway is empty or
\* provider, model ID or display name is blank; a submit in that case sets the
\* error and changes nothing else of the page (sent, the model's count of the
\* requests of the latest user action, is reset); a request that is sent
\* carries the trimmed model ID and display name and the trimmed, lower-cased
\* provider.
C8_CatalogRequiredFields ==
  [][/\ CatalogSends =>
          /\ ~CatalogMissing
          /\ request' # Null
          /\ request'[1].kind = catalogMutation
          /\ IsNormalizedProviderOf(request'[1].provider, catalogProvider)
          /\ IsTrimOf(request'[1].model_id, catalogModelId)
          /\ IsTrimOf(request'[1].display_name, catalogDisplayName)
     /\ (catalogHandleSubmit /\ CatalogMissing) =>
          /\ error' # Null /\ error'[1] # ""
          /\ UNCHANGED <<page, authVars, dataVars, propVars, sortVars, formVars, routingVars,
                         syncVars, mut, request, invalidated, location>>]_vars

\* C8 witness: a request went out with normalized values and a later submit
\* with a required field blank was refused.
C8_Witness ==
  /\ page = "catalogForm"
  /\ request # Null
  /\ request[1].provider = <<"a", "b">>
  /\ error = Some("Provider, model ID, and display name are required.")
  /\ \A kind \in MutationKinds : mut[kind] = "idle"

\* The tokens of a settings text
Tokens(text) == SelectSeq(text, LAMBDA c : c # " ")

\* The text denotes a JSON object: braces around nothing or around key : value
IsObjectText(text) ==
  LET tokens == Tokens(text)
  IN /\ Len(tokens) \in {2, 5}
     /\ tokens[1] = "{" /\ tokens[Len(tokens)] = "}"
     /\ Len(tokens) = 5 =>
          (tokens[2] = "k" /\ tokens[3] = ":" /\ tokens[4] \in {"1", "k", "null"})

\* The keys of the object a text denotes
KeysOf(text) ==
  LET tokens == Tokens(text)
  IN {tokens[i] : i \in {i \in 1..Len(tokens) - 1 : tokens[i + 1] = ":"}}

SettingsError == Some("Settings must be a valid JSON object.")

\* A submit of the catalog form with settings that are not blank and not an
\* object sends nothing and sets an error
RejectsBadSettings ==
  (catalogHandleSubmit /\ ~Blank(settingsText) /\ ~IsObjectText(settingsText)) =>
    /\ ~CatalogSends
    /\ mut' = mut /\ request' = request
    /\ error' # Null /\ error'[1] # ""

\* A request of the catalog form made from an object text carries that object
SendsParsedObject ==
  (CatalogSends /\ IsObjectText(settingsText)) =>
    request'[1].settings = Some(JsonObject(KeysOf(settingsText)))

\* C9 as stated: settings that are not blank and not a JSON object make submit
\* send nothing and set the error "Settings must be a valid JSON object."; an
\* object is what is sent.
C9_SettingsMustBeObject ==
  [][/\ RejectsBadSettings
     /\ (catalogHandleSubmit /\ ~Blank(settingsText) /\ ~IsObjectText(settingsText)) =>
          error' = SettingsError
     /\ SendsParsedObject]_vars

\* C9 amended: as stated, with the error being "Settings must be a valid JSON
\* object." when the gateway and the required fields are present; when one of
\* them is missing the submit still sends nothing and sets that check's error.
C9_SettingsMustBeObjectAfterRequired ==
  [][/\ RejectsBadSettings
     /\ (catalogHandleSubmit /\ ~Blank(settingsText) /\ ~IsObjectText(settingsText)
           /\ ~CatalogMissing) =>
          error' = SettingsError
     /\ (SettingsError \in {error'} /\ error' # error) =>
          (~Blank(settingsText) /\ ~IsObjectText(settingsText))
     /\ SendsParsedObject]_vars

\* C9 witness: an object was sent, and a later submit with settings that are
\* not an object was refused.
C9_Witness ==
  /\ page = "catalogForm"
  /\ error = SettingsError
  /\ request # Null /\ request[1].settings = Some(JsonObject({"k"}))
  /\ settingsDraft # Null /\ ~IsObjectText(settingsDraft[1])

\* The provider auth form in create mode lacks its gateway, provider or secret
ProviderCreateMissing ==
  providerGatewayId = "" \/ Blank(providerProvider) \/ Blank(secret)

\* C10: a provider auth create request carries a non-empty gateway id, the
\* non-empty trimmed lower-cased provider, a non-empty config path and the
\* non-empty trimmed secret; with a blank config path field the path sent is
\* providers.<provider>.apiKey of the provider sent.  In create mode a submit
\* lacking gateway, provider or secret sends nothing and sets an error.
C10_ProviderCreateRequest ==
  [][/\ Sends("createProviderAuth") =>
          /\ request' # Null
          /\ request'[1].kind = "createProviderAuth"
          /\ request'[1].gateway_id # ""
          /\ request'[1].provider # <<>>
          /\ IsNormalizedProviderOf(request'[1].provider, providerProvider)
          /\ request'[1].config_path # <<>>
          /\ request'[1].secret # <<>>
          /\ IsTrimOf(request'[1].secret, secret)
          /\ IF Blank(configPath)
             THEN request'[1].config_path =
                    <<"providers.">> \o request'[1].provider \o <<".apiKey">>
             ELSE IsTrimOf(request'[1].config_path, configPath)
     /\ (providerHandleSubmit /\ mode = "create" /\ ProviderCreateMissing) =>
          /\ mut' = mut /\ request' = request
          /\ error' # Null /\ error'[1] # ""]_vars

\* C10 witness: a create request went out with the default config path, and a
\* later submit without a secret was refused.
C10_Witness ==
  /\ page = "providerForm" /\ mode = "create"
  /\ request # Null
  /\ request[1].kind = "createProviderAuth"
  /\ request[1].config_path = <<"providers.", "a", "b", ".apiKey">>
  /\ error = Some("Secret is required.")

\* C11: in edit mode of the provider auth form an update request carries no
\* secret when the secret field is blank, and the trimmed secret otherwise; a
\* submit whose only blank field is the secret sends the update.
C11_BlankSecretKeepsCurrent ==
  [][/\ Sends("updateProviderAuth") =>
          /\ request' # Null
          /\ request'[1].kind = "updateProviderAuth"
          /\ IF Blank(secret)
             THEN request'[1].secret = Null
             ELSE /\ request'[1].secret # Null
                  /\ request'[1].secret[1] # <<>>
                  /\ IsTrimOf(request'[1].secret[1], secret)
     /\ (providerHandleSubmit /\ mode = "edit" /\ Blank(secret)
           /\ providerGatewayId # "" /\ ~Blank(providerProvider)
           /\ providerAuthId # "") =>
          (Sends("updateProviderAuth") /\ error' = Null)]_vars

\* C11 witness: an update went out without a secret while the secret field
\* held only whitespace.
C11_Witness ==
  /\ page = "providerForm" /\ mode = "edit"
  /\ secret = <<" ">>
  /\ request # Null
  /\ request[1].kind = "updateProviderAuth"
  /\ request[1].secret = Null
  /\ mut["updateProviderAuth"] = "pending"

\* C12: on the sync page a pull or push request never goes out with an empty
\* gateway id; the id it goes out for is listed in the fetched gateway list of
\* the moment of the click: the user's selection when that is listed, and the
\* first listed gateway otherwise.
C12_SyncGatewayListed ==
  [][\A kind \in {"pull", "sync"} :
       Sends(kind) =>
         /\ request' # Null /\ request'[1].kind = kind
         /\ request'[1].gatewayId # ""
         /\ request'[1].gatewayId \in Range(gateways)
         /\ IF activeGatewayDraft # Null /\ activeGatewayDraft[1] \in Range(gateways)
            THEN request'[1].gatewayId = activeGatewayDraft[1]
            ELSE request'[1].gatewayId = gateways[1]]_vars

\* C12 witness: a push went out for the first listed gateway because the
\* gateway the user had selected is no longer listed.
C12_Witness ==
  /\ page = "sync"
  /\ activeGatewayDraft = Some("g1")
  /\ gateways = <<"g2">>
  /\ mut["sync"] = "pending"
  /\ request # Null /\ request[1].kind = "sync" /\ request[1].gatewayId = "g2"

\* C13: on every page a list query has delivered data only for a user who is
\* signed in and an organization admin, and the provider auth query of the
\* provider auth form only in edit mode besides; without that the page holds
\* no fetched list.
C13_QueriesAdminOnly ==
  /\ loaded \subseteq PageQueries
  /\ loaded # {} => (isSignedIn /\ isAdmin)
  /\ (page = "providerForm" /\ "providerAuth" \in loaded) => mode = "edit"
  /\ ~(isSignedIn /\ isAdmin) =>
       (gateways = <<>> /\ models = <<>> /\ agents = <<>> /\ providerAuth = <<>>)
  /\ (page = "providerForm" /\ mode # "edit") => providerAuth = <<>>

\* C13 witness: an admin on the provider auth form in create mode, the gateways
\* fetched and the provider auth list not, after a submit.
C13_Witness ==
  /\ page = "providerForm" /\ mode = "create"
  /\ isSignedIn /\ isAdmin
  /\ "gateways" \in loaded /\ gateways # <<>>
  /\ "providerAuth" \notin loaded
  /\ request # Null

\* The list queries a succeeded push, pull or delete invalidates
KeysOfMutation(kind) ==
  CASE kind \in {"pull", "sync"} -> {"modelsKey", "providerAuthKey", "agentsKey"}
    [] kind = "deleteModel" -> {"modelsKey", "agentsKey"}
    [] OTHER -> {"providerAuthKey"}

\* C14: a succeeded push or pull ends with the models, provider auth and agents
\* list queries invalidated, a succeeded catalog model delete with the models
\* and agents list queries, a succeeded provider auth delete with the provider
\* auth list query, and nothing else; a failed one invalidates nothing, and on
\* these pages nothing is invalidated but by a succeeded mutation.
C14_InvalidationSets ==
  [][/\ \A kind \in {"pull", "sync", "deleteModel", "deleteProvider"} :
          /\ (mut[kind] = "settling" /\ mut'[kind] = "idle") =>
               (/\ KeysOfMutation(kind) \subseteq invalidated'
                /\ invalidated' = invalidated \cup KeysOfMutation(kind))
          /\ Fails(kind) => invalidated' = invalidated
          /\ (mut'[kind] = "settling") => (mut[kind] \in {"pending", "settling"})
     /\ (page \in {"sync", "routingTable"} /\ invalidated' # invalidated) =>
          (\E kind \in {"pull", "sync", "deleteModel", "deleteProvider"} :
             mut[kind] = "settling" /\ mut'[kind] = "idle")]_vars

\* C14 witness: a catalog model delete has succeeded, with the models and the
\* agents list queries invalidated and the provider auth list query not.
C14_Witness ==
  /\ page = "routingTable" /\ mode = "catalog"
  /\ request # Null /\ request[1].kind = "deleteModel"
  /\ mut["deleteModel"] = "idle"
  /\ invalidated = {"modelsKey", "agentsKey"}

\* The primary the edit page displays for the server data before any edit:
\* the stored primary when it is a model of the agent's gateway
PristinePrimary ==
  LET stored == Coalesce(agent[1].primary_model_id, "")
  IN IF stored \in AgentGatewayModelIds THEN stored ELSE ""

\* The fallback list the edit page displays for the server data before any
\* edit: the stored list without the displayed primary, without ids that are
\* not models of the agent's gateway, and without repetitions
PristineFallback ==
  LET stored == Coalesce(agent[1].fallback_model_ids, <<>>)
      kept == {i \in 1..Len(stored) :
                 /\ stored[i] # PristinePrimary
                 /\ stored[i] \in AgentGatewayModelIds
                 /\ \A j \in 1..(i - 1) : stored[j] # stored[i]}
      position(i) == Cardinality({j \in kept : j <= i})
  IN [n \in 1..Cardinality(kept) |-> stored[CHOOSE i \in kept : position(i) = n]]

\* Revert leaves both drafts unset and the page displaying what it displays
\* for the server data before any edit
RevertRestoresDisplay ==
  handleRevert =>
    /\ primaryModelDraft' = Null /\ fallbackModelDraft' = Null
    /\ dataVars' = dataVars
    /\ primaryModelId' = PristinePrimary
    /\ fallbackModelIds' = PristineFallback

\* C15: after Revert both drafts are unset, the page displays the primary and
\* the fallback list it displays for the same server data before any edit,
\* there are no unsaved changes (the badge reads "Saved"), and Save and Revert
\* are disabled.
C15_RevertRestoresSaved ==
  [][/\ RevertRestoresDisplay
     /\ handleRevert =>
          (/\ ~hasUnsavedChanges'
           /\ ~(routingControlsEnabled' /\ hasUnsavedChanges'))]_vars

\* The part of Revert that concerns the displayed values alone
RevertKeepsDisplay == [][RevertRestoresDisplay]_vars

\* C16: Clear override leaves the displayed primary empty and the displayed
\* fallback list empty whatever routing the agent has stored; the status is
\* then not "override"; and a Save that follows with the cleared drafts still
\* in place sends primary_model_id null and fallback_model_ids null.
C16_ClearOverrideEmpties ==
  [][/\ clearOverride =>
          (/\ primaryModelId' = "" /\ fallbackModelIds' = <<>>
           /\ status' # "override")
     /\ (/\ page = "routingEdit"
         /\ primaryModelDraft = Some("") /\ fallbackModelDraft = Some(<<>>)
         /\ Sends("updateAgent")) =>
          (/\ request'[1].kind = "updateAgent"
           /\ request'[1].primary_model_id = Null
           /\ request'[1].fallback_model_ids = Null)]_vars

\* C16 witness: an agent stored with a primary and a fallback model had its
\* override cleared, and the Save that followed is in flight with both null.
C16_Witness ==
  /\ page = "routingEdit"
  /\ agent # Null
  /\ agent[1].primary_model_id # Null
  /\ baselinePrimaryModelId \in availableModelIds
  /\ Len(baselineFallbackModelIds) > 0
  /\ primaryModelDraft = Some("") /\ fallbackModelDraft = Some(<<>>)
  /\ mut["updateAgent"] = "pending"
  /\ request # Null /\ request[1].kind = "updateAgent"
  /\ request[1].primary_model_id = Null /\ request[1].fallback_model_ids = Null

\* The three routing statuses
RoutingStatuses == {"override", "default", "unconfigured"}

\* A status is the classification of one agent: override exactly when its
\* primary resolves, default exactly when it does not and the gateway has a
\* default, unconfigured exactly when there is no effective primary at all.
Classifies(st, resolves, hasDefault) ==
  /\ st \in RoutingStatuses
  /\ (st = "override") <=> resolves
  /\ (st = "default") <=> (~resolves /\ hasDefault)
  /\ (st = "unconfigured") <=> ~(resolves \/ hasDefault)

\* C17: on the routing table and on the edit page the routing status is a
\* total three-way classification: override exactly when a primary model
\* resolves (on the table the stored primary among the fetched models, on the
\* edit page the requested primary among the models of the agent's gateway),
\* default exactly when none resolves and the gateway has a default primary,
\* unconfigured exactly when there is no effective primary; an agent is
\* unconfigured only if no fetched model lives on its gateway.
C17_StatusClassification ==
  /\ page = "routingTable" =>
       \A i \in 1..Len(agents) :
         LET stored == Coalesce(agents[i].primary_model_id, "")
             resolves == stored # "" /\ \E k \in 1..Len(models) : models[k].id = stored
             hasDefault == OnGateway(agents[i].gateway_id) # {}
         IN /\ Classifies(routingRows[i].status, resolves, hasDefault)
            /\ (routingRows[i].effectivePrimary = Null) <=> ~(resolves \/ hasDefault)
            /\ routingRows[i].status = "unconfigured" => ~hasDefault
  /\ (page = "routingEdit" /\ agent # Null) =>
       LET resolves == primaryModelIdCandidate \in AgentGatewayModelIds
           hasDefault == AgentGatewayModelIds # {}
       IN /\ Classifies(status, resolves, hasDefault)
          /\ (effectivePrimaryModel = Null) <=> ~(resolves \/ hasDefault)
          /\ status = "unconfigured" => ~hasDefault

\* C17 witness: on the edit page the agent's stored primary names no model of
\* its gateway while the gateway has a catalog model, and the status is default.
C17_Witness ==
  /\ page = "routingEdit" /\ agent # Null
  /\ primaryModelDraft = Null
  /\ baselinePrimaryModelId # ""
  /\ baselinePrimaryModelId \notin AgentGatewayModelIds
  /\ AgentGatewayModelIds # {}
  /\ status = "default"

\* rendered holds the rows of fetched, each as often as fetched holds it
IsPermutationOf(rendered, fetched) ==
  /\ Len(rendered) = Len(fetched)
  /\ \A row \in Range(rendered) \cup Range(fetched) :
       Cardinality({i \in 1..Len(rendered) : rendered[i] = row})
         = Cardinality({i \in 1..Len(fetched) : fetched[i] = row})

\* The value a provider auth row is sorted by: a number for the secret and
\* updated columns, otherwise the text of the column without regard to case
ProviderKey(row) ==
  CASE providerSortKey = "gateway" -> <<0, ToLowerCase(gatewayName(row.gateway_id))>>
    [] providerSortKey = "provider" -> <<0, ToLowerCase(row.provider)>>
    [] providerSortKey = "config_path" -> <<0, ToLowerCase(row.config_path)>>
    [] providerSortKey = "secret" -> <<IF row.has_secret THEN 1 ELSE 0, <<>>>>
    [] providerSortKey = "updated" -> <<Coalesce(row.updated_at, 0), <<>>>>

\* The value a catalog row is sorted by
ModelKey(row) ==
  CASE modelSortKey = "gateway" -> <<0, ToLowerCase(gatewayName(row.gateway_id))>>
    [] modelSortKey = "display_name" -> <<0, ToLowerCase(row.display_name)>>
    [] modelSortKey = "model_id" -> <<0, ToLowerCase(row.model_id)>>
    [] modelSortKey = "provider" -> <<0, ToLowerCase(row.provider)>>
    [] modelSortKey = "settings" ->
         <<IF row.settings = Null THEN 0 ELSE Cardinality(row.settings[1].keys), <<>>>>
    [] modelSortKey = "updated" -> <<Coalesce(row.updated_at, 0), <<>>>>

\* The value a routing row is sorted by: the text of the column as the table
\* shows it, without regard to case
RoutingKey(row) ==
  CASE routingSortKey = "agent" -> <<0, ToLowerCase(row.agent.name)>>
    [] routingSortKey = "role" ->
         <<0, IF row.agent.role = Null \/ Blank(row.agent.role[1]) THEN Unspecified
              ELSE ToLowerCase(Trim(row.agent.role[1]))>>
    [] routingSortKey = "gateway" -> <<0, ToLowerCase(gatewayName(row.agent.gateway_id))>>
    [] routingSortKey = "board" ->
         <<0, IF row.agent.board_id = Some("b1") THEN Boards[1].name ELSE GatewayMain>>
    [] routingSortKey = "primary" ->
         <<0, IF row.effectivePrimary = Null THEN <<>>
              ELSE ToLowerCase(row.effectivePrimary[1].display_name)>>
    [] routingSortKey = "status" ->
         <<0, CASE row.status = "override" -> PrimaryOverride
                [] row.status = "default" -> UsingDefault
                [] OTHER -> NoPrimary>>

\* Two consecutive rows are in order: in the selected direction by their sort
\* values, and rows of equal sort value in the same direction by their tie names
InOrder(direction, firstKey, secondKey, firstTie, secondTie) ==
  LET byKey == IF firstKey[1] # secondKey[1] THEN firstKey[1] - secondKey[1]
               ELSE localeCompareText(firstKey[2], secondKey[2])
      byTie == localeCompareText(firstTie, secondTie)
  IN IF direction = "asc" THEN byKey < 0 \/ (byKey = 0 /\ byTie <= 0)
     ELSE byKey > 0 \/ (byKey = 0 /\ byTie >= 0)

\* C18: the rendered rows of each table are a permutation of the fetched rows,
\* whatever the sort key and direction, and consecutive rendered rows are
\* ordered by the selected key in the selected direction (text keys without
\* regard to case), ties on the key being broken in the same direction by
\* provider (provider auth), display name (catalog) or agent name (routing).
C18_RowsSortedPermutation ==
  /\ mode = "provider-auth" =>
       LET rows == providerRows
       IN /\ IsPermutationOf(rows, providerAuth)
          /\ \A i \in 1..(Len(rows) - 1) :
               InOrder(providerSortDirection,
                       ProviderKey(rows[i]), ProviderKey(rows[i + 1]),
                       rows[i].provider, rows[i + 1].provider)
  /\ mode = "catalog" =>
       LET rows == modelRows
       IN /\ IsPermutationOf(rows, models)
          /\ \A i \in 1..(Len(rows) - 1) :
               InOrder(modelSortDirection,
                       ModelKey(rows[i]), ModelKey(rows[i + 1]),
                       rows[i].display_name, rows[i + 1].display_name)
  /\ mode = "routing" =>
       LET rows == sortedRoutingRows
       IN /\ IsPermutationOf(rows, routingRows)
          /\ \A i \in 1..(Len(rows) - 1) :
               InOrder(routingSortDirection,
                       RoutingKey(rows[i]), RoutingKey(rows[i + 1]),
                       rows[i].agent.name, rows[i + 1].agent.name)

\* C18 witness: the provider auth table sorted by secret, descending, shows
\* three rows in another order than fetched, two of them equal on the key and
\* ordered by their providers.
C18_Witness ==
  /\ page = "routingTable" /\ mode = "provider-auth"
  /\ providerSortKey = "secret" /\ providerSortDirection = "desc"
  /\ Len(providerRows) = 3
  /\ providerRows # providerAuth
  /\ \E i \in 1..2 :
       /\ providerRows[i].has_secret = providerRows[i + 1].has_secret
       /\ providerRows[i].provider # providerRows[i + 1].provider

\* C19: settings are optional in the catalog form.  A submit with blank
\* settings text never sets the settings error, and it sends when the gateway,
\* the required fields and, in edit mode, the model identifier are present; the
\* request then carries no settings in create mode and the empty object in
\* edit mode, whatever settings the edited model has stored.
C19_BlankSettingsAccepted ==
  [][(catalogHandleSubmit /\ Blank(settingsText)) =>
       /\ error' # SettingsError
       /\ (~CatalogMissing /\ (mode = "edit" => itemId # "")) =>
            (CatalogSends /\ error' = Null)
       /\ CatalogSends =>
            /\ mode = "create" => request'[1].settings = Null
            /\ mode = "edit" => request'[1].settings = Some(JsonObject({}))]_vars

\* C19 witness: the model under edit has settings stored, the settings field
\* was blanked, and the update in flight carries the empty object.
C19_Witness ==
  /\ page = "catalogForm" /\ mode = "edit"
  /\ catalogCurrentItem # Null
  /\ catalogCurrentItem[1].settings = Some(JsonObject({"k"}))
  /\ settingsDraft # Null /\ Blank(settingsDraft[1])
  /\ mut["updateModel"] = "pending"
  /\ request # Null /\ request[1].kind = "updateModel"
  /\ request[1].settings = Some(JsonObject({}))

\* A pull or a push of the sync page is pending
SyncPending == isPending("pull") \/ isPending("sync")

\* C20: on the sync page at most one of pull and push is pending at any time;
\* while one is pending no pull and no push starts (both buttons are
\* disabled) and the user's gateway selection does not change (the selector
\* is disabled).
C20_OnePendingAtATime ==
  /\ [](page = "sync" => ~(isPending("pull") /\ isPending("sync")))
  /\ [][(page = "sync" /\ SyncPending) =>
          /\ ~Sends("pull") /\ ~Sends("sync")
          /\ ~ENABLED runGatewayPull /\ ~ENABLED runGatewaySync
          /\ \A value \in GatewayIds : ~ENABLED setActiveGatewayDraft(value)
          /\ activeGatewayDraft' = activeGatewayDraft]_vars

\* C20 witness: a push is pending after a pull has settled, with two gateways
\* to select from.
C20_Witness ==
  /\ page = "sync"
  /\ mut["sync"] = "pending" /\ mut["pull"] = "idle"
  /\ Len(gateways) >= 2
  /\ "modelsKey" \in invalidated
====
